---- MODULE Spec2Model ----
(***************************************************************************)
(* KombuchaELN: the timepoint / measurement workflow of src/timepoints.py  *)
(* and the status derivation of src/experiments.py over the entity store   *)
(* of src/database.py.                                                     *)
(*                                                                         *)
(* The store is the SQLite database: one table per ORM class.  A table is  *)
(* a function from the ids of its rows to the rows.  Every operation opens *)
(* its own session (get_session), reads, mutates, commits and closes.      *)
(***************************************************************************)
EXTENDS Integers, Sequences, FiniteSets, TLC

(***************************************************************************)
(* Bounds of the model.                                                    *)
(***************************************************************************)
MaxTimepoints == 3
MaxOrder == 3
MaxBatches == 2
MaxMeasurements == 2
NumSessions == 2

\* An id column holding NULL (Python None); row ids start at 1.
NoId == 0
\* A nullable value column holding NULL (Python None).
None == "None"

\* The experiments in the store: two, so that timepoints and batches of one
\* experiment meet those of another.
ExperimentIds == {1, 2}
\* Ids a caller may pass for an experiment: the last one names no row.
AnyExperimentId == {1, 2, 3}
\* Ids a caller may pass for a timepoint (a stale page may name a deleted row).
AnyTimepointId == 1..MaxTimepoints
Orders == 1..MaxOrder
TimepointNames == {"tx"}
TimepointHours == {0}

AnyBatchId == 1..MaxBatches
\* The value columns of Measurement the model carries: two of the nullable
\* columns (all of them are read and written alike) and the completed flag.
DataFields == {"ph_value", "micro_results"}
FieldValues == {None, "a"}
\* The keyword arguments of a record_measurement call: a dict over columns.
ValueInputs ==
    UNION {[F -> FieldValues] : F \in (SUBSET DataFields) \ {{}}}
        \cup [{"completed"} -> BOOLEAN]

Sessions == 1..NumSessions
\* The (batch, timepoint) pair whose measurement the concurrent sessions edit.
SharedBatchIds == {1}
SharedTimepointIds == {1}
\* The keyword arguments of the concurrent record_measurement calls.
SingleValueInputs == UNION {[{f} -> FieldValues] : f \in DataFields}

BatchStatuses ==
    {"Setup", "Prepared", "Incubating", "Sampling", "Analysis Pending",
     "Micro Plated", "HPLC Prepped", "pH Measured", "SCOBY Weighed", "Completed"}

ExperimentStatuses == {"Planning", "Running", "Analysis", "Completed"}

VARIABLES
    experiments,   \* table experiments: id -> [status, current_timepoint_id]
    batches,       \* table batches: id -> [experiment_id, status]
    timepoints,    \* table timepoints: id -> [experiment_id, name, hours, order]
    measurements,  \* table measurements: id -> [batch_id, timepoint_id, fields..., completed]
    sessions,      \* open sessions of concurrently served requests
    assigned,      \* history: batch id -> the value log_batch_action last set batch.status to
    ret            \* the last finished call: [op, args, val]

store == <<experiments, batches, timepoints, measurements>>
vars == <<experiments, batches, timepoints, measurements, sessions, assigned, ret>>

(***************************************************************************)
(* Helpers.                                                                *)
(***************************************************************************)
RECURSIVE SetMax(_)
SetMax(S) ==
    IF S = {} THEN 0
    ELSE LET x == CHOOSE y \in S : TRUE
             m == SetMax(S \ {x})
         IN IF x > m THEN x ELSE m

\* SQLite assigns an INTEGER PRIMARY KEY without AUTOINCREMENT the largest
\* rowid in use plus one.
NextRowId(table) == SetMax(DOMAIN table) + 1

Insert(table, row) ==
    [i \in (DOMAIN table) \cup {NextRowId(table)} |->
        IF i \in DOMAIN table THEN table[i] ELSE row]

DeleteMutant(table, id) ==
    [i \in (DOMAIN table) \ {id} |->
        IF table[i].order > table[id].order
        THEN [table[i] EXCEPT !.order = @ - 1]
        ELSE table[i]]

Delete(table, id) == [i \in (DOMAIN table) \ {id} |-> table[i]]

Call(op, args, val) == [op |-> op, args |-> args, val |-> val]

(***************************************************************************)
(* Timepoint Sequencer (src/timepoints.py).                                *)
(***************************************************************************)

\* query(func.max(Timepoint.order)).filter_by(experiment_id=e).scalar():
\* 0 stands for the NULL of an empty selection.
MaxOrderOfMutant(e) ==
    SetMax({timepoints[t].order : t \in DOMAIN timepoints})

MaxOrderOf(e) ==
    SetMax({timepoints[t].order : t \in {u \in DOMAIN timepoints : timepoints[u].experiment_id = e}})

\* create_custom_timepoint(experiment_id, name, hours, description, order=None);
\* order = NoId stands for the omitted argument.
CreateCustomTimepoint(e, name, hours, order) ==
    LET o == IF order = NoId
             THEN (IF MaxOrderOf(e) = 0 THEN 1 ELSE MaxOrderOf(e) + 1)
             ELSE order
        id == NextRowId(timepoints)
    IN /\ Cardinality(DOMAIN timepoints) < MaxTimepoints
       /\ id <= MaxTimepoints
       /\ o <= MaxOrder
       /\ timepoints' = Insert(timepoints,
              [experiment_id |-> e, name |-> name, hours |-> hours, order |-> o])
       /\ ret' = Call("create_custom_timepoint", <<e>>, id)
       /\ UNCHANGED <<experiments, batches, measurements, sessions, assigned>>

\* set_current_timepoint(experiment_id, timepoint_id)
SetCurrentTimepoint(e, t) ==
    IF e \notin DOMAIN experiments
    THEN /\ ret' = Call("set_current_timepoint", <<e, t>>, FALSE)
         /\ UNCHANGED <<experiments, batches, timepoints, measurements, sessions, assigned>>
    ELSE /\ experiments' = [experiments EXCEPT ![e].current_timepoint_id = t]
         /\ ret' = Call("set_current_timepoint", <<e, t>>, TRUE)
         /\ UNCHANGED <<batches, timepoints, measurements, sessions, assigned>>

\* The rows of the query in advance_to_next_timepoint:
\* filter_by(experiment_id=e).filter(Timepoint.order > cur.order)
LaterTimepointsMutant(e, cur) ==
    {t \in DOMAIN timepoints :
        /\ timepoints[t].experiment_id = e
        /\ timepoints[t].order >= timepoints[cur].order}

LaterTimepoints(e, cur) ==
    {t \in DOMAIN timepoints :
        /\ timepoints[t].experiment_id = e
        /\ timepoints[t].order > timepoints[cur].order}

\* .order_by(Timepoint.order).first(): a row of the least order; rows that tie
\* on order come in an order SQL leaves open.
FirstByOrderMutant(S) ==
    {t \in S : \A u \in S : timepoints[t].order >= timepoints[u].order}

FirstByOrder(S) ==
    {t \in S : \A u \in S : timepoints[t].order <= timepoints[u].order}

\* The current timepoint advance_to_next_timepoint starts from: NoId when the
\* experiment is missing or has no current_timepoint_id.
CurrentTimepointId(e) ==
    IF e \in DOMAIN experiments THEN experiments[e].current_timepoint_id ELSE NoId

\* The rows advance_to_next_timepoint may find as next_timepoint; none when
\* the experiment, its current_timepoint_id or the current row is missing.
NextTimepointsMutant(e) ==
    LET cur == CurrentTimepointId(e)
    IN IF cur = NoId \/ cur \notin DOMAIN timepoints
       THEN FirstByOrder({t \in DOMAIN timepoints : timepoints[t].experiment_id = e})
       ELSE FirstByOrder(LaterTimepoints(e, cur))

NextTimepoints(e) ==
    LET cur == CurrentTimepointId(e)
    IN IF cur = NoId \/ cur \notin DOMAIN timepoints
       THEN {}
       ELSE FirstByOrder(LaterTimepoints(e, cur))

\* advance_to_next_timepoint(experiment_id)
AdvanceToNextTimepoint(e) ==
    IF e \notin DOMAIN experiments \/ NextTimepoints(e) = {}
    THEN /\ ret' = Call("advance_to_next_timepoint", <<e>>, NoId)
         /\ UNCHANGED <<experiments, batches, timepoints, measurements, sessions, assigned>>
    ELSE \E nxt \in NextTimepoints(e) :
         /\ experiments' = [experiments EXCEPT ![e].current_timepoint_id = nxt]
         /\ ret' = Call("advance_to_next_timepoint", <<e>>, nxt)
         /\ UNCHANGED <<batches, timepoints, measurements, sessions, assigned>>

\* delete_timepoint(timepoint_id)
DeleteTimepointMutant(t) ==
    LET inUse == \E e \in DOMAIN experiments : experiments[e].current_timepoint_id = t
    IN IF (~inUse) /\ t \in DOMAIN timepoints
       THEN /\ timepoints' = Delete(timepoints, t)
            /\ ret' = Call("delete_timepoint", <<t>>, TRUE)
            /\ UNCHANGED <<experiments, batches, measurements, sessions, assigned>>
       ELSE /\ ret' = Call("delete_timepoint", <<t>>, FALSE)
            /\ UNCHANGED <<experiments, batches, timepoints, measurements, sessions, assigned>>

DeleteTimepoint(t) ==
    LET inUse == \E e \in DOMAIN experiments : experiments[e].current_timepoint_id = t
        hasMeasurements == \E m \in DOMAIN measurements : measurements[m].timepoint_id = t
    IN IF (~inUse) /\ (~hasMeasurements) /\ t \in DOMAIN timepoints
       THEN /\ timepoints' = Delete(timepoints, t)
            /\ ret' = Call("delete_timepoint", <<t>>, TRUE)
            /\ UNCHANGED <<experiments, batches, measurements, sessions, assigned>>
       ELSE /\ ret' = Call("delete_timepoint", <<t>>, FALSE)
            /\ UNCHANGED <<experiments, batches, timepoints, measurements, sessions, assigned>>

(***************************************************************************)
(* Spec: the sequencer over a store with experiments and no timepoints.    *)
(***************************************************************************)
EmptyTable == [i \in {} |-> None]

Init ==
    /\ experiments = [e \in ExperimentIds |->
                        [status |-> "Planning", current_timepoint_id |-> NoId]]
    /\ batches = EmptyTable
    /\ timepoints = EmptyTable
    /\ measurements = EmptyTable
    /\ sessions = EmptyTable
    /\ assigned = [b \in DOMAIN batches |-> None]
    /\ ret = Call("init", <<>>, NoId)

DoCreateCustomTimepoint ==
    \E e \in ExperimentIds, name \in TimepointNames, hours \in TimepointHours,
       order \in {NoId} \cup Orders :
        CreateCustomTimepoint(e, name, hours, order)

DoSetCurrentTimepoint ==
    \E e \in AnyExperimentId, t \in AnyTimepointId : SetCurrentTimepoint(e, t)

DoAdvanceToNextTimepoint ==
    \E e \in AnyExperimentId : AdvanceToNextTimepoint(e)

DoDeleteTimepoint ==
    \E t \in AnyTimepointId : DeleteTimepoint(t)

Next ==
    \/ DoCreateCustomTimepoint
    \/ DoSetCurrentTimepoint
    \/ DoAdvanceToNextTimepoint
    \/ DoDeleteTimepoint

Spec == Init /\ [][Next]_vars

(***************************************************************************)
(* Measurement Recorder (src/timepoints.py).                               *)
(***************************************************************************)

\* query(Measurement).filter_by(batch_id=b, timepoint_id=t): the ids of the
\* rows of table ms for the pair; .first() yields one of them, None if empty.
MatchingMutant(ms, b, t) ==
    {m \in DOMAIN ms : ms[m].batch_id = t /\ ms[m].timepoint_id = b}

Matching(ms, b, t) ==
    {m \in DOMAIN ms : ms[m].batch_id = b /\ ms[m].timepoint_id = t}

\* values.get(key): the keyword argument, or the column's default.
ValueOr(values, key, default) ==
    IF key \in DOMAIN values THEN values[key] ELSE default

\* Measurement(batch_id=b, timepoint_id=t, **values): columns not passed are
\* NULL, completed defaults to False.
NewMeasurement(b, t, values) ==
    [batch_id |-> b, timepoint_id |-> t,
     ph_value |-> ValueOr(values, "ph_value", None),
     micro_results |-> ValueOr(values, "micro_results", None),
     completed |-> ValueOr(values, "completed", FALSE)]

\* for key, value in values.items(): setattr(measurement, key, value)
PatchMeasurementMutant(row, values) ==
    NewMeasurement(row.batch_id, row.timepoint_id, values)

PatchMeasurement(row, values) ==
    [k \in DOMAIN row |-> IF k \in DOMAIN values THEN values[k] ELSE row[k]]

\* record_measurement(batch_id, timepoint_id, **values)
RecordMeasurement(b, t, values) ==
    /\ IF Matching(measurements, b, t) # {}
       THEN \E m \in Matching(measurements, b, t) :
               measurements' = [measurements EXCEPT ![m] = PatchMeasurement(@, values)]
       ELSE /\ Cardinality(DOMAIN measurements) < MaxMeasurements
            /\ measurements' = Insert(measurements, NewMeasurement(b, t, values))
    /\ ret' = Call("record_measurement", <<b, t, values>>, TRUE)
    /\ UNCHANGED <<experiments, batches, timepoints, sessions, assigned>>

\* measurement.completed = completed
MarkedRowMutant(row, c) ==
    NewMeasurement(row.batch_id, row.timepoint_id, [k \in {"completed"} |-> c])

MarkedRow(row, c) == [row EXCEPT !.completed = c]

\* mark_measurement_completed(batch_id, timepoint_id, completed=True)
MarkMeasurementCompleted(b, t, c) ==
    /\ IF Matching(measurements, b, t) = {}
       THEN /\ Cardinality(DOMAIN measurements) < MaxMeasurements
            /\ measurements' = Insert(measurements,
                   NewMeasurement(b, t, [k \in {"completed"} |-> c]))
       ELSE \E m \in Matching(measurements, b, t) :
               measurements' = [measurements EXCEPT ![m] = MarkedRow(@, c)]
    /\ ret' = Call("mark_measurement_completed", <<b, t, c>>, TRUE)
    /\ UNCHANGED <<experiments, batches, timepoints, sessions, assigned>>

\* query(Batch).filter_by(experiment_id=e).all()
BatchesOf(e) == {b \in DOMAIN batches : batches[b].experiment_id = e}

TimepointCompletedValuesMutant(t) ==
    LET allCompleted ==
            /\ t \in DOMAIN timepoints
            /\ \A b \in BatchesOf(timepoints[t].experiment_id) :
                  \E m \in Matching(measurements, b, t) : measurements[m].completed
    IN {v \in BOOLEAN : v = allCompleted}

\* The values is_timepoint_completed(timepoint_id) can return.  The loop
\* returns False at the first batch whose .first() row is missing or not
\* completed; with several rows for one pair .first() may yield any of them.
TimepointCompletedValues(t) ==
    LET bs == BatchesOf(timepoints[t].experiment_id)
        canTrue == /\ t \in DOMAIN timepoints
                   /\ bs # {}
                   /\ \A b \in bs : \E m \in Matching(measurements, b, t) :
                          measurements[m].completed
        canFalse == \/ t \notin DOMAIN timepoints
                    \/ bs = {}
                    \/ \E b \in bs :
                          \/ Matching(measurements, b, t) = {}
                          \/ \E m \in Matching(measurements, b, t) :
                                ~measurements[m].completed
    IN {v \in BOOLEAN : (v /\ canTrue) \/ (~v /\ canFalse)}

\* is_timepoint_completed(timepoint_id)
IsTimepointCompleted(t) ==
    /\ \E v \in TimepointCompletedValues(t) :
          ret' = Call("is_timepoint_completed", <<t>>, v)
    /\ UNCHANGED <<experiments, batches, timepoints, measurements, sessions, assigned>>

(***************************************************************************)
(* SpecMeas: the recorder over a store with one timepoint, for the batch   *)
(* ids 1..MaxBatches.  record_measurement and mark_measurement_completed   *)
(* look up neither the batch nor the timepoint, and SQLite does not        *)
(* enforce the foreign keys.                                               *)
(***************************************************************************)
\* The row create_custom_timepoint(1, "tx", 0, ...) leaves in an empty table.
OneTimepoint ==
    Insert(EmptyTable, [experiment_id |-> 1, name |-> "tx", hours |-> 0, order |-> 1])

\* The rows create_custom_timepoint(e, "tx", 0, ...) leaves when called once
\* for every experiment.
OneTimepointEach ==
    [t \in ExperimentIds |->
        [experiment_id |-> t, name |-> "tx", hours |-> 0, order |-> 1]]

InitMeas ==
    /\ experiments = [e \in ExperimentIds |->
                        [status |-> "Planning", current_timepoint_id |-> NoId]]
    /\ batches = EmptyTable
    /\ timepoints = OneTimepoint
    /\ measurements = EmptyTable
    /\ sessions = EmptyTable
    /\ assigned = [b \in DOMAIN batches |-> None]
    /\ ret = Call("init", <<>>, NoId)

DoRecordMeasurement ==
    \E b \in AnyBatchId, t \in DOMAIN timepoints, values \in ValueInputs :
        RecordMeasurement(b, t, values)

DoMarkMeasurementCompleted ==
    \E b \in AnyBatchId, t \in DOMAIN timepoints, c \in BOOLEAN :
        MarkMeasurementCompleted(b, t, c)

SpecMeas ==
    /\ InitMeas
    /\ [][\/ DoRecordMeasurement
          \/ DoMarkMeasurementCompleted]_vars

(***************************************************************************)
(* SpecCompleted: the completion query over the batches tables a database  *)
(* file can hold, with the completed flags set by                          *)
(* mark_measurement_completed.                                             *)
(***************************************************************************)
\* The batches tables of a database file: main.py adds the status column
\* with its default 'Setup' to a batches table that lacks it; temperature
\* stands for the nullable columns of class Batch, left empty.
BatchTables ==
    UNION {[1..n -> [experiment_id : ExperimentIds, status : {"Setup"},
                     temperature : {None}]] :
              n \in 0..MaxBatches}

InitCompleted ==
    /\ experiments = [e \in ExperimentIds |->
                        [status |-> "Planning", current_timepoint_id |-> NoId]]
    /\ batches \in BatchTables
    /\ timepoints = OneTimepointEach
    /\ measurements = EmptyTable
    /\ sessions = EmptyTable
    /\ assigned = [b \in DOMAIN batches |-> None]
    /\ ret = Call("init", <<>>, NoId)

DoIsTimepointCompleted ==
    \E t \in AnyTimepointId : IsTimepointCompleted(t)

SpecCompleted ==
    /\ InitCompleted
    /\ [][\/ DoMarkMeasurementCompleted
          \/ DoIsTimepointCompleted]_vars

(***************************************************************************)
(* SpecConc: record_measurement and mark_measurement_completed served for  *)
(* two sessions at once.  Every call runs in a session of its own          *)
(* (get_session): the query reads the committed rows, session.commit()     *)
(* writes the INSERT or UPDATE the session has pending.  Neither the table *)
(* (no unique constraint on batch_id, timepoint_id) nor the code (no lock) *)
(* keeps another session from committing between a session's query and its *)
(* commit.                                                                 *)
(***************************************************************************)
IdleSession ==
    [pc |-> "idle", op |-> "none", b |-> NoId, t |-> NoId,
     values |-> EmptyTable, found |-> NoId, loaded |-> EmptyTable]

\* measurement = session.query(Measurement).filter_by(...).first(): the
\* session keeps the row it loaded, or None.
QueryMeasurement(s, op, b, t, values) ==
    /\ sessions[s].pc = "idle"
    /\ IF Matching(measurements, b, t) = {}
       THEN sessions' = [sessions EXCEPT ![s] =
               [pc |-> "queried", op |-> op, b |-> b, t |-> t, values |-> values,
                found |-> NoId, loaded |-> EmptyTable]]
       ELSE \E m \in Matching(measurements, b, t) :
               sessions' = [sessions EXCEPT ![s] =
                  [pc |-> "queried", op |-> op, b |-> b, t |-> t, values |-> values,
                   found |-> m, loaded |-> measurements[m]]]
    /\ UNCHANGED <<experiments, batches, timepoints, measurements, assigned, ret>>

\* The UPDATE the unit of work flushes for a loaded row: it sets the columns
\* whose attribute now differs from the loaded value, WHERE id = found.
FlushUpdate(row, loaded, values) ==
    [k \in DOMAIN row |->
        IF k \in DOMAIN values /\ values[k] # loaded[k] THEN values[k] ELSE row[k]]

\* session.commit() of a record_measurement or mark_measurement_completed.
CommitMeasurement(s) ==
    LET c == sessions[s]
    IN /\ c.pc = "queried"
       /\ IF c.found = NoId
          THEN /\ Cardinality(DOMAIN measurements) < MaxMeasurements
               /\ measurements' = Insert(measurements, NewMeasurement(c.b, c.t, c.values))
          ELSE measurements' = [measurements EXCEPT ![c.found] =
                                   FlushUpdate(@, c.loaded, c.values)]
       /\ sessions' = [sessions EXCEPT ![s] = IdleSession]
       /\ ret' = Call(c.op, <<c.b, c.t>>, TRUE)
       /\ UNCHANGED <<experiments, batches, timepoints, assigned>>

InitConc ==
    /\ experiments = [e \in ExperimentIds |->
                        [status |-> "Planning", current_timepoint_id |-> NoId]]
    /\ batches = EmptyTable
    /\ timepoints = OneTimepointEach
    /\ measurements = EmptyTable
    /\ sessions = [s \in Sessions |-> IdleSession]
    /\ assigned = [b \in DOMAIN batches |-> None]
    /\ ret = Call("init", <<>>, NoId)

DoQueryForRecord ==
    \E s \in Sessions, b \in SharedBatchIds, t \in SharedTimepointIds,
       values \in SingleValueInputs :
        QueryMeasurement(s, "record_measurement", b, t, values)

DoQueryForMark ==
    \E s \in Sessions, b \in SharedBatchIds, t \in SharedTimepointIds, c \in BOOLEAN :
        QueryMeasurement(s, "mark_measurement_completed", b, t,
                         [k \in {"completed"} |-> c])

DoCommitMeasurement ==
    \E s \in Sessions : CommitMeasurement(s)

SpecConc ==
    /\ InitConc
    /\ [][\/ DoQueryForRecord
          \/ DoQueryForMark
          \/ DoCommitMeasurement]_vars

(***************************************************************************)
(* Status Deriver (src/experiments.py): the rules of                       *)
(* update_experiment_status_from_batches over the list of batch statuses.  *)
(***************************************************************************)
\* all(p(x) for x in xs), evaluated from the first element on.
RECURSIVE AllStatus(_, _)
AllStatus(xs, S) ==
    IF xs = <<>> THEN TRUE
    ELSE IF Head(xs) \notin S THEN FALSE ELSE AllStatus(Tail(xs), S)

\* any(p(x) for x in xs), evaluated from the first element on.
RECURSIVE AnyStatus(_, _)
AnyStatus(xs, S) ==
    IF xs = <<>> THEN FALSE
    ELSE IF Head(xs) \in S THEN TRUE ELSE AnyStatus(Tail(xs), S)

\* The if / elif chain that assigns experiment.status.
DerivedStatusMutant(xs) ==
    IF xs = <<>> THEN "Planning"
    ELSE IF AnyStatus(xs, {"Completed"}) THEN "Completed"
    ELSE IF AnyStatus(xs, {"Setup"}) THEN "Planning"
    ELSE IF AnyStatus(xs, {"Incubating", "Sampling"}) THEN "Running"
    ELSE "Analysis"

DerivedStatus(xs) ==
    IF xs = <<>> THEN "Planning"
    ELSE IF AllStatus(xs, {"Completed"}) THEN "Completed"
    ELSE IF AnyStatus(xs, {"Setup"}) THEN "Planning"
    ELSE IF AnyStatus(xs, {"Incubating", "Sampling"}) THEN "Running"
    ELSE "Analysis"

(***************************************************************************)
(* SpecDerive: the rules applied to every list of batch statuses of up to  *)
(* MaxBatches batches.                                                     *)
(***************************************************************************)
StatusLists == UNION {[1..n -> BatchStatuses] : n \in 0..MaxBatches}

InitDerive ==
    /\ experiments = [e \in ExperimentIds |->
                        [status |-> "Planning", current_timepoint_id |-> NoId]]
    /\ batches = EmptyTable
    /\ timepoints = EmptyTable
    /\ measurements = EmptyTable
    /\ sessions = EmptyTable
    /\ assigned = [b \in DOMAIN batches |-> None]
    /\ ret = Call("init", <<>>, NoId)

DeriveStatus(xs) ==
    /\ ret' = Call("derive_status", <<xs>>, DerivedStatus(xs))
    /\ UNCHANGED <<experiments, batches, timepoints, measurements, sessions, assigned>>

SpecDerive ==
    /\ InitDerive
    /\ [][\E xs \in StatusLists : DeriveStatus(xs)]_vars

(***************************************************************************)
(* Batch Logger (src/experiments.py).  A row of table batches carries the  *)
(* columns experiment_id and status; status is the column main.py adds to  *)
(* the table, class Batch does not map it.                                 *)
(***************************************************************************)
\* The action types the batch page logs.
ActionTypes ==
    {"preparation", "incubation_start", "incubation_end", "sample_split",
     "micro_plating", "hplc_prep", "ph_measurement", "scoby_wet_weight",
     "scoby_dry_weight"}
\* An action type a caller may pass: the last one is none the mapping knows.
AnyActionType == ActionTypes \cup {"other"}
\* The timestamp argument of two calls.
Timestamps == {"t1", "t2"}
\* The keyword arguments of a log_batch_action call: none, or the pH reading
\* the batch page passes with ph_measurement.
LogValueInputs == {[k \in {} |-> None], [k \in {"ph_value"} |-> "a"]}
\* Keyword arguments that name a column of class Batch.
ColumnValueInputs == {[k \in {"temperature"} |-> v] : v \in {"a", "b"}}

\* status_mapping of log_batch_action.
status_mapping ==
    [preparation |-> "Prepared", incubation_start |-> "Incubating",
     incubation_end |-> "Sampling", sample_split |-> "Analysis Pending",
     micro_plating |-> "Micro Plated", hplc_prep |-> "HPLC Prepped",
     ph_measurement |-> "pH Measured", scoby_wet_weight |-> "SCOBY Weighed",
     scoby_dry_weight |-> "Completed"]

\* f"{action_type}_time"
TimeAttribute ==
    [preparation |-> "preparation_time", incubation_start |-> "incubation_start_time",
     incubation_end |-> "incubation_end_time", sample_split |-> "sample_split_time",
     micro_plating |-> "micro_plating_time", hplc_prep |-> "hplc_prep_time",
     ph_measurement |-> "ph_measurement_time",
     scoby_wet_weight |-> "scoby_wet_weight_time",
     scoby_dry_weight |-> "scoby_dry_weight_time", other |-> "other_time"]

\* The columns class Batch maps.
BatchColumns ==
    {"id", "experiment_id", "name", "tea_type", "tea_concentration",
     "water_amount", "sugar_type", "sugar_concentration",
     "inoculum_concentration", "temperature"}

\* The names hasattr(batch, name) finds on a Batch a query has loaded: the
\* mapped columns and the relationships.
BatchAttributes == BatchColumns \cup {"experiment", "measurements"}

\* session.query(Batch).filter_by(id=b).first(): the object holds the mapped
\* columns of the row.
LoadBatch(row) == [k \in (DOMAIN row) \cap BatchColumns |-> row[k]]

\* setattr(obj, key, value); on a name the class does not map it sets a plain
\* attribute of the object.
SetAttr(obj, key, value) ==
    [k \in (DOMAIN obj) \cup {key} |-> IF k = key THEN value ELSE obj[k]]

\* The UPDATE session.commit() flushes: the mapped columns of the object.
FlushBatch(row, obj) ==
    [k \in DOMAIN row |->
        IF k \in BatchColumns /\ k \in DOMAIN obj THEN obj[k] ELSE row[k]]

\* The batch object of log_batch_action when it reaches session.commit().
LoggedBatch(row, a, ts, values) ==
    LET loaded == LoadBatch(row)
        stamped == IF TimeAttribute[a] \in BatchAttributes
                   THEN SetAttr(loaded, TimeAttribute[a], ts)
                   ELSE loaded
        keys == {k \in DOMAIN values : k \in BatchAttributes \cup DOMAIN stamped}
        patched == [k \in (DOMAIN stamped) \cup keys |->
                       IF k \in keys THEN values[k] ELSE stamped[k]]
    IN IF a \in DOMAIN status_mapping
       THEN SetAttr(patched, "status", status_mapping[a])
       ELSE patched

\* [batch.status for batch in batches], the rows in id order.
RECURSIVE StatusList(_, _)
StatusList(bts, bs) ==
    IF bs = {} THEN <<>>
    ELSE LET m == SetMax(bs)
         IN Append(StatusList(bts, bs \ {m}), bts[m].status)

\* Table experiments after update_experiment_status_from_batches(e) over the
\* batches table bts.  Reading batch.status of a Batch loaded by this
\* function's own session raises AttributeError unless the class has the
\* attribute; the except branch rolls back and returns False.
ExperimentsAfterStatusUpdate(exps, bts, e) ==
    IF e \notin DOMAIN exps THEN exps
    ELSE LET bs == {b \in DOMAIN bts : bts[b].experiment_id = e}
         IN IF bs = {} THEN [exps EXCEPT ![e].status = "Planning"]
            ELSE IF "status" \notin BatchAttributes THEN exps
            ELSE [exps EXCEPT ![e].status = DerivedStatus(StatusList(bts, bs))]

\* log_batch_action(batch_id, action_type, timestamp, **values); the result
\* of update_experiment_status_from_batches is not looked at.
LogBatchAction(b, a, ts, values) ==
    IF b \notin DOMAIN batches
    THEN /\ ret' = Call("log_batch_action", <<b, a, ts>>, FALSE)
         /\ UNCHANGED <<experiments, batches, timepoints, measurements, sessions, assigned>>
    ELSE LET obj == LoggedBatch(batches[b], a, ts, values)
             committed == [batches EXCEPT ![b] = FlushBatch(@, obj)]
         IN /\ batches' = committed
            /\ experiments' = ExperimentsAfterStatusUpdate(experiments, committed,
                                                           committed[b].experiment_id)
            /\ assigned' = [assigned EXCEPT ![b] =
                               IF a \in DOMAIN status_mapping THEN obj.status ELSE @]
            /\ ret' = Call("log_batch_action", <<b, a, ts>>, TRUE)
            /\ UNCHANGED <<timepoints, measurements, sessions>>

\* update_experiment(experiment_id, **kwargs); every key the model passes is
\* a column of class Experiment.
UpdateExperiment(e, kwargs) ==
    IF e \notin DOMAIN experiments
    THEN /\ ret' = Call("update_experiment", <<e, kwargs>>, FALSE)
         /\ UNCHANGED <<experiments, batches, timepoints, measurements, sessions, assigned>>
    ELSE /\ experiments' = [experiments EXCEPT ![e] =
                [k \in DOMAIN experiments[e] |->
                    IF k \in DOMAIN kwargs THEN kwargs[k] ELSE experiments[e][k]]]
         /\ ret' = Call("update_experiment", <<e, kwargs>>, TRUE)
         /\ UNCHANGED <<batches, timepoints, measurements, sessions, assigned>>

(***************************************************************************)
(* SpecLog: the batch page and the Start Experiment button over the        *)
(* batches tables a database file can hold.                                *)
(***************************************************************************)
InitLog ==
    /\ experiments = [e \in ExperimentIds |->
                        [status |-> "Planning", current_timepoint_id |-> NoId]]
    /\ batches \in BatchTables
    /\ timepoints = EmptyTable
    /\ measurements = EmptyTable
    /\ sessions = EmptyTable
    /\ assigned = [b \in DOMAIN batches |-> None]
    /\ ret = Call("init", <<>>, NoId)

DoLogBatchAction ==
    \E b \in AnyBatchId, a \in AnyActionType, ts \in Timestamps,
       values \in LogValueInputs :
        LogBatchAction(b, a, ts, values)

\* start_experiment: update_experiment(experiment_id, status='Running')
DoStartExperiment ==
    \E e \in AnyExperimentId : UpdateExperiment(e, [k \in {"status"} |-> "Running"])

SpecLog ==
    /\ InitLog
    /\ [][\/ DoLogBatchAction
          \/ DoStartExperiment]_vars

(***************************************************************************)
(* SpecLogValues: log_batch_action called with values for a column of      *)
(* class Batch, next to the Start Experiment button.                       *)
(***************************************************************************)
DoLogBatchValues ==
    \E b \in AnyBatchId, a \in {"ph_measurement", "other"}, ts \in Timestamps,
       values \in ColumnValueInputs :
        LogBatchAction(b, a, ts, values)

SpecLogValues ==
    /\ InitLog
    /\ [][\/ DoLogBatchValues
          \/ DoStartExperiment]_vars

(***************************************************************************)
(* SpecDelete: delete_timepoint next to the operations that put a          *)
(* timepoint in use, over an experiment whose timepoints are sequenced.    *)
(***************************************************************************)
\* The rows MaxTimepoints calls create_custom_timepoint(1, "tx", 0, ...)
\* without an order leave: orders 1, 2, ... in experiment 1.
SequencedTimepoints ==
    [t \in 1..MaxTimepoints |->
        [experiment_id |-> 1, name |-> "tx", hours |-> 0, order |-> t]]

InitDelete ==
    /\ experiments = [e \in ExperimentIds |->
                        [status |-> "Planning", current_timepoint_id |-> NoId]]
    /\ batches = EmptyTable
    /\ timepoints = SequencedTimepoints
    /\ measurements = EmptyTable
    /\ sessions = EmptyTable
    /\ assigned = [b \in DOMAIN batches |-> None]
    /\ ret = Call("init", <<>>, NoId)

\* toggle_completed for batch 1 at a timepoint: the first call creates the
\* Measurement of the pair.
DoCompleteMeasurement ==
    \E t \in DOMAIN timepoints : MarkMeasurementCompleted(1, t, TRUE)

SpecDelete ==
    /\ InitDelete
    /\ [][\/ DoSetCurrentTimepoint
          \/ DoAdvanceToNextTimepoint
          \/ DoCompleteMeasurement
          \/ DoDeleteTimepoint]_vars

(***************************************************************************)
(* SpecFinal: is_final_timepoint over the timepoints tables that           *)
(* create_default_timepoints, create_custom_timepoint and delete_timepoint *)
(* build.                                                                  *)
(***************************************************************************)
\* default_timepoints of create_default_timepoints.
default_timepoints ==
    <<[name |-> "t0", hours |-> 0, order |-> 1],
      [name |-> "t4", hours |-> 4, order |-> 2],
      [name |-> "t7", hours |-> 7, order |-> 3],
      [name |-> "t11", hours |-> 11, order |-> 4]>>

\* for tp_data in default_timepoints: session.add(Timepoint(...)), from the
\* i-th entry on.
RECURSIVE AddDefaults(_, _, _)
AddDefaults(table, e, i) ==
    IF i > Len(default_timepoints) THEN table
    ELSE AddDefaults(Insert(table,
                        [experiment_id |-> e, name |-> default_timepoints[i].name,
                         hours |-> default_timepoints[i].hours,
                         order |-> default_timepoints[i].order]),
                     e, i + 1)

\* create_default_timepoints(experiment_id); the model lets it add rows while
\* the ids in use are within MaxTimepoints.
CreateDefaultTimepointsMutant(e) ==
    LET added == AddDefaults(timepoints, e, 1)
        t0 == {t \in DOMAIN added :
                  added[t].experiment_id = e /\ added[t].name = "t0"}
    IN /\ SetMax(DOMAIN timepoints) <= MaxTimepoints
       /\ timepoints' = added
       /\ IF e \in DOMAIN experiments /\ t0 # {}
          THEN \E t \in t0 :
                  experiments' = [experiments EXCEPT ![e].current_timepoint_id = t]
          ELSE experiments' = experiments
       /\ ret' = Call("create_default_timepoints", <<e>>, TRUE)
       /\ UNCHANGED <<batches, measurements, sessions, assigned>>

CreateDefaultTimepoints(e) ==
    IF \E t \in DOMAIN timepoints : timepoints[t].experiment_id = e
    THEN /\ ret' = Call("create_default_timepoints", <<e>>, TRUE)
         /\ UNCHANGED <<experiments, batches, timepoints, measurements, sessions, assigned>>
    ELSE LET added == AddDefaults(timepoints, e, 1)
             t0 == {t \in DOMAIN added :
                       added[t].experiment_id = e /\ added[t].name = "t0"}
         IN /\ SetMax(DOMAIN timepoints) <= MaxTimepoints
            /\ timepoints' = added
            /\ IF e \in DOMAIN experiments /\ t0 # {}
               THEN \E t \in t0 :
                       experiments' = [experiments EXCEPT ![e].current_timepoint_id = t]
               ELSE experiments' = experiments
            /\ ret' = Call("create_default_timepoints", <<e>>, TRUE)
            /\ UNCHANGED <<batches, measurements, sessions, assigned>>

\* The value is_final_timepoint(timepoint_id) returns.
IsFinalMutant(t) ==
    /\ t \in DOMAIN timepoints
    /\ {u \in DOMAIN timepoints :
           /\ timepoints[u].experiment_id = timepoints[t].experiment_id
           /\ u > t} = {}

IsFinal(t) ==
    /\ t \in DOMAIN timepoints
    /\ {u \in DOMAIN timepoints :
           /\ timepoints[u].experiment_id = timepoints[t].experiment_id
           /\ timepoints[u].order > timepoints[t].order} = {}

\* is_final_timepoint(timepoint_id)
IsFinalTimepoint(t) ==
    /\ ret' = Call("is_final_timepoint", <<t>>, IsFinal(t))
    /\ UNCHANGED <<experiments, batches, timepoints, measurements, sessions, assigned>>

InitFinal ==
    /\ experiments = [e \in ExperimentIds |->
                        [status |-> "Planning", current_timepoint_id |-> NoId]]
    /\ batches = EmptyTable
    /\ timepoints = EmptyTable
    /\ measurements = EmptyTable
    /\ sessions = EmptyTable
    /\ assigned = [b \in DOMAIN batches |-> None]
    /\ ret = Call("init", <<>>, NoId)

DoCreateDefaultTimepoints ==
    \E e \in ExperimentIds : CreateDefaultTimepoints(e)

\* The Delete button of a row of the timepoint grid.
DoDeleteListedTimepoint ==
    \E t \in DOMAIN timepoints : DeleteTimepoint(t)

\* is_final_timepoint for a row of the table, or for an id that names none.
DoIsFinalTimepoint ==
    \E t \in (DOMAIN timepoints) \cup {NextRowId(timepoints)} : IsFinalTimepoint(t)

SpecFinal ==
    /\ InitFinal
    /\ [][\/ DoCreateDefaultTimepoints
          \/ DoCreateCustomTimepoint
          \/ DoDeleteListedTimepoint
          \/ DoIsFinalTimepoint]_vars

(***************************************************************************)
(* SpecWorkflow: the pages of one experiment.  A page is rendered from the *)
(* store and keeps the buttons it was rendered with until it is rendered   *)
(* again; a click runs the button's handler on the store of that moment.   *)
(* A handler that succeeds reloads its page.  Several pages of the         *)
(* experiment can be open at once (browser tabs, users).                   *)
(***************************************************************************)
\* The experiment whose pages are open.
PageExperiment == 1
\* The names typed into the Add Timepoint form.
FormTimepointNames == {"t0", "tx"}
\* A database file with MaxBatches batches in the experiment.
PageBatches ==
    [b \in 1..MaxBatches |->
        [experiment_id |-> PageExperiment, status |-> "Setup", temperature |-> None]]

ClosedPage == [pc |-> "closed", current |-> NoId, offers |-> {}]

\* The navigation buttons create_timepoint_workflow_ui can render for the
\* current timepoint t: none unless is_timepoint_completed(t), then Complete
\* Experiment if is_final_timepoint(t), else Advance.
NavigationOffers(t) ==
    {IF v THEN (IF IsFinal(t) THEN {"complete_experiment"} ELSE {"advance_timepoint"})
          ELSE {} : v \in TimepointCompletedValues(t)}

\* create_timepoint_workflow_ui(experiment_id)
RenderWorkflowPage(p) ==
    LET cur == experiments[PageExperiment].current_timepoint_id
    IN /\ IF cur # NoId /\ cur \in DOMAIN timepoints
          THEN \E nav \in NavigationOffers(cur) :
                  sessions' = [sessions EXCEPT ![p] =
                     [pc |-> "workflow", current |-> cur,
                      offers |-> {"toggle_completed"} \cup nav]]
          ELSE sessions' = [sessions EXCEPT ![p] =
                  [pc |-> "workflow", current |-> NoId, offers |-> {"start_workflow"}]]
       /\ UNCHANGED <<experiments, batches, timepoints, measurements, assigned, ret>>

\* create_experiment_edit_ui(experiment_id), its Start Experiment button.
RenderExperimentPage(p) ==
    /\ sessions' = [sessions EXCEPT ![p] =
          [pc |-> "experiment", current |-> NoId,
           offers |-> IF experiments[PageExperiment].status = "Planning"
                      THEN {"start_experiment"} ELSE {}]]
    /\ UNCHANGED <<experiments, batches, timepoints, measurements, assigned, ret>>

\* start_experiment: update_experiment(experiment_id, status='Running')
ClickStartExperiment(p) ==
    /\ "start_experiment" \in sessions[p].offers
    /\ experiments' = [experiments EXCEPT ![PageExperiment].status = "Running"]
    /\ ret' = Call("update_experiment",
                   <<PageExperiment, [k \in {"status"} |-> "Running"]>>, TRUE)
    /\ sessions' = [sessions EXCEPT ![p] = ClosedPage]
    /\ UNCHANGED <<batches, timepoints, measurements, assigned>>

\* toggle_completed(b_id, t_id) of the page's current timepoint.
ClickToggleCompleted(p, b) ==
    LET t == sessions[p].current
        rows == Matching(measurements, b, t)
    IN /\ "toggle_completed" \in sessions[p].offers
       /\ b \in BatchesOf(PageExperiment)
       /\ IF rows = {}
          THEN /\ measurements' = Insert(measurements,
                      NewMeasurement(b, t, [k \in {"completed"} |-> TRUE]))
               /\ ret' = Call("mark_measurement_completed", <<b, t, TRUE>>, TRUE)
          ELSE \E m \in rows :
                  /\ measurements' = [measurements EXCEPT ![m] =
                                         MarkedRow(@, ~measurements[m].completed)]
                  /\ ret' = Call("mark_measurement_completed",
                                 <<b, t, ~measurements[m].completed>>, TRUE)
       /\ sessions' = [sessions EXCEPT ![p] = ClosedPage]
       /\ UNCHANGED <<experiments, batches, timepoints, assigned>>

\* complete_experiment
ClickCompleteExperiment(p) ==
    /\ "complete_experiment" \in sessions[p].offers
    /\ experiments' = [experiments EXCEPT ![PageExperiment].status = "Completed"]
    /\ ret' = Call("complete_experiment", <<PageExperiment>>, TRUE)
    /\ sessions' = [sessions EXCEPT ![p] = ClosedPage]
    /\ UNCHANGED <<batches, timepoints, measurements, assigned>>

\* start_workflow: create_default_timepoints commits, then a second
\* transaction looks up the timepoint named "t0" and commits the current
\* timepoint with status "Running".  committed = FALSE is the second commit
\* raising: the except branch rolls that transaction back.
ClickStartWorkflow(p, committed) ==
    LET e == PageExperiment
        created == IF \E t \in DOMAIN timepoints : timepoints[t].experiment_id = e
                   THEN timepoints
                   ELSE AddDefaults(timepoints, e, 1)
        t0 == {t \in DOMAIN created :
                  created[t].experiment_id = e /\ created[t].name = "t0"}
    IN /\ "start_workflow" \in sessions[p].offers
       /\ timepoints' = created
       /\ IF t0 = {}
          THEN /\ experiments' = experiments
               /\ ret' = Call("start_workflow", <<e>>, FALSE)
               /\ sessions' = sessions
          ELSE \E first \in t0, t \in t0 :
                 LET defaulted ==
                        IF created = timepoints THEN experiments
                        ELSE [experiments EXCEPT ![e].current_timepoint_id = first]
                 IN IF committed
                    THEN /\ experiments' = [defaulted EXCEPT
                                ![e].current_timepoint_id = t,
                                ![e].status = "Running"]
                         /\ ret' = Call("start_workflow", <<e>>, TRUE)
                         /\ sessions' = [sessions EXCEPT ![p] = ClosedPage]
                    ELSE /\ experiments' = defaulted
                         /\ ret' = Call("start_workflow", <<e>>, FALSE)
                         /\ sessions' = sessions
       /\ UNCHANGED <<batches, measurements, assigned>>

InitWorkflow ==
    /\ experiments = [e \in ExperimentIds |->
                        [status |-> "Planning", current_timepoint_id |-> NoId]]
    /\ batches = PageBatches
    /\ timepoints = EmptyTable
    /\ measurements = EmptyTable
    /\ sessions = [p \in Sessions |-> ClosedPage]
    /\ assigned = [b \in DOMAIN batches |-> None]
    /\ ret = Call("init", <<>>, NoId)

\* add_timepoint of the timepoint configuration page.
DoAddTimepoint ==
    \E name \in FormTimepointNames, hours \in TimepointHours :
        CreateCustomTimepoint(PageExperiment, name, hours, NoId)

DoRenderWorkflowPage == \E p \in Sessions : RenderWorkflowPage(p)

DoRenderExperimentPage == \E p \in Sessions : RenderExperimentPage(p)

DoClickStartExperiment == \E p \in Sessions : ClickStartExperiment(p)

DoClickToggleCompleted ==
    \E p \in Sessions, b \in AnyBatchId : ClickToggleCompleted(p, b)

DoClickCompleteExperiment == \E p \in Sessions : ClickCompleteExperiment(p)

DoClickStartWorkflow ==
    \E p \in Sessions, committed \in BOOLEAN : ClickStartWorkflow(p, committed)

SpecWorkflow ==
    /\ InitWorkflow
    /\ [][\/ DoAddTimepoint
          \/ DoRenderWorkflowPage
          \/ DoRenderExperimentPage
          \/ DoClickStartExperiment
          \/ DoClickToggleCompleted
          \/ DoClickCompleteExperiment
          \/ DoClickStartWorkflow]_vars

(***************************************************************************)
(* SpecMissing: the creating operations called with ids that name no row:  *)
(* an experiment id outside the table, any batch id (the table is empty),  *)
(* and timepoint ids with and without a row.                               *)
(***************************************************************************)
\* The experiment ids a caller may pass that name no row.
MissingExperimentIds == AnyExperimentId \ ExperimentIds

InitMissing ==
    /\ experiments = [e \in ExperimentIds |->
                        [status |-> "Planning", current_timepoint_id |-> NoId]]
    /\ batches = EmptyTable
    /\ timepoints = EmptyTable
    /\ measurements = EmptyTable
    /\ sessions = EmptyTable
    /\ assigned = [b \in DOMAIN batches |-> None]
    /\ ret = Call("init", <<>>, NoId)

DoCreateDefaultsForMissing ==
    \E e \in MissingExperimentIds : CreateDefaultTimepoints(e)

DoCreateCustomForMissing ==
    \E e \in MissingExperimentIds, name \in TimepointNames, hours \in TimepointHours :
        CreateCustomTimepoint(e, name, hours, NoId)

DoRecordForMissing ==
    \E b \in AnyBatchId, t \in AnyTimepointId, values \in SingleValueInputs :
        RecordMeasurement(b, t, values)

DoMarkForMissing ==
    \E b \in AnyBatchId, t \in AnyTimepointId, c \in BOOLEAN :
        MarkMeasurementCompleted(b, t, c)

SpecMissing ==
    /\ InitMissing
    /\ [][\/ DoCreateDefaultsForMissing
          \/ DoCreateCustomForMissing
          \/ DoRecordForMissing
          \/ DoMarkForMissing]_vars

(***************************************************************************)
(* SpecConcCreate: sessions that create timepoints at the same time.  Each *)
(* call is two steps, its first query and its commit; pysqlite holds no    *)
(* lock between a SELECT and the first INSERT, so the steps of different   *)
(* sessions interleave.                                                    *)
(***************************************************************************)
IdleCreator ==
    [pc |-> "idle", op |-> "none", e |-> NoId, name |-> None, hours |-> 0,
     order |-> NoId]

\* create_custom_timepoint with order omitted, up to the computed order:
\* max_order = session.query(func.max(Timepoint.order))...scalar().
QueryMaxOrder(s, e, name, hours) ==
    /\ sessions[s].pc = "idle"
    /\ Cardinality(DOMAIN timepoints) < MaxTimepoints
    /\ sessions' = [sessions EXCEPT ![s] =
          [pc |-> "queried", op |-> "create_custom_timepoint", e |-> e,
           name |-> name, hours |-> hours,
           order |-> IF MaxOrderOf(e) = 0 THEN 1 ELSE MaxOrderOf(e) + 1]]
    /\ UNCHANGED <<experiments, batches, timepoints, measurements, assigned, ret>>

\* create_default_timepoints up to "if existing_timepoints: return True".
QueryExistingTimepoints(s, e) ==
    /\ sessions[s].pc = "idle"
    /\ SetMax(DOMAIN timepoints) <= MaxTimepoints
    /\ IF \E t \in DOMAIN timepoints : timepoints[t].experiment_id = e
       THEN /\ ret' = Call("create_default_timepoints", <<e>>, TRUE)
            /\ UNCHANGED sessions
       ELSE /\ sessions' = [sessions EXCEPT ![s] =
                  [pc |-> "queried", op |-> "create_default_timepoints", e |-> e,
                   name |-> None, hours |-> 0, order |-> NoId]]
            /\ UNCHANGED ret
    /\ UNCHANGED <<experiments, batches, timepoints, measurements, assigned>>

\* The rest of either call: the rows are added and committed with what the
\* session's query saw.
CommitTimepoints(s) ==
    LET c == sessions[s]
    IN /\ c.pc = "queried"
       /\ IF c.op = "create_custom_timepoint"
          THEN /\ timepoints' = Insert(timepoints,
                     [experiment_id |-> c.e, name |-> c.name, hours |-> c.hours,
                      order |-> c.order])
               /\ experiments' = experiments
               /\ ret' = Call(c.op, <<c.e>>, NextRowId(timepoints))
          ELSE LET added == AddDefaults(timepoints, c.e, 1)
                   t0 == {t \in DOMAIN added :
                             added[t].experiment_id = c.e /\ added[t].name = "t0"}
               IN /\ timepoints' = added
                  /\ IF c.e \in DOMAIN experiments /\ t0 # {}
                     THEN \E t \in t0 :
                             experiments' =
                                [experiments EXCEPT ![c.e].current_timepoint_id = t]
                     ELSE experiments' = experiments
                  /\ ret' = Call(c.op, <<c.e>>, TRUE)
       /\ sessions' = [sessions EXCEPT ![s] = IdleCreator]
       /\ UNCHANGED <<batches, measurements, assigned>>

InitConcCreate ==
    /\ experiments = [e \in ExperimentIds |->
                        [status |-> "Planning", current_timepoint_id |-> NoId]]
    /\ batches = EmptyTable
    /\ timepoints = EmptyTable
    /\ measurements = EmptyTable
    /\ sessions = [s \in Sessions |-> IdleCreator]
    /\ assigned = [b \in DOMAIN batches |-> None]
    /\ ret = Call("init", <<>>, NoId)

DoQueryMaxOrder ==
    \E s \in Sessions, e \in ExperimentIds, name \in TimepointNames,
       hours \in TimepointHours :
        QueryMaxOrder(s, e, name, hours)

DoQueryExistingTimepoints ==
    \E s \in Sessions, e \in ExperimentIds : QueryExistingTimepoints(s, e)

DoCommitTimepoints ==
    \E s \in Sessions : CommitTimepoints(s)

SpecConcCreate ==
    /\ InitConcCreate
    /\ [][\/ DoQueryMaxOrder
          \/ DoQueryExistingTimepoints
          \/ DoCommitTimepoints]_vars

(***************************************************************************)
(* SpecAdvance: advance_to_next_timepoint called again and again over the  *)
(* timepoint tables the sequencer can leave, with no other operation in    *)
(* between.  Every experiment's advance call keeps being made.             *)
(***************************************************************************)
\* The timepoints tables with ids 1..n that create_custom_timepoint can
\* leave (an explicit order may repeat one in use).
TimepointTables ==
    UNION {[1..n -> [experiment_id : ExperimentIds, name : TimepointNames,
                     hours : TimepointHours, order : Orders]] :
              n \in 1..MaxTimepoints}

InitAdvance ==
    /\ timepoints \in TimepointTables
    /\ experiments \in [ExperimentIds ->
                          [status : {"Planning"},
                           current_timepoint_id : {NoId} \cup DOMAIN timepoints]]
    /\ \A e \in ExperimentIds :
          experiments[e].current_timepoint_id # NoId =>
             timepoints[experiments[e].current_timepoint_id].experiment_id = e
    /\ batches = EmptyTable
    /\ measurements = EmptyTable
    /\ sessions = EmptyTable
    /\ assigned = [b \in DOMAIN batches |-> None]
    /\ ret = Call("init", <<>>, NoId)

DoAdvanceAgain ==
    \E e \in ExperimentIds : AdvanceToNextTimepoint(e)

SpecAdvance ==
    /\ InitAdvance
    /\ [][DoAdvanceAgain]_vars
    /\ \A e \in ExperimentIds : WF_vars(AdvanceToNextTimepoint(e))

(***************************************************************************)
(* SpecNavigate: the workflow page of one experiment used by one user, who *)
(* clicks a button of the page as it was just rendered: the previous/next  *)
(* navigation, the completion toggle and the Advance button.               *)
(***************************************************************************)
\* The timepoints tables of the page's experiment, ids 1..n.
SequenceTables ==
    UNION {[1..n -> [experiment_id : {PageExperiment}, name : TimepointNames,
                     hours : TimepointHours, order : Orders]] :
              n \in 1..MaxTimepoints}

\* get_experiment_timepoints(e) is sorted by order; rows that tie on order
\* come in an order SQL leaves open.  The ids the navigation loop can take
\* for next_tp when the current timepoint is cur, NoId standing for None:
\* the element after cur in some such list.
NextOffered(e, cur) ==
    LET own == {t \in DOMAIN timepoints : timepoints[t].experiment_id = e}
        ties == {t \in own \ {cur} : timepoints[t].order = timepoints[cur].order}
        later == {t \in own : timepoints[t].order > timepoints[cur].order}
    IN IF cur \notin own THEN {NoId}
       ELSE ties \cup FirstByOrder(later) \cup (IF later = {} THEN {NoId} ELSE {})

\* The rows of S with the greatest order.
LastByOrder(S) ==
    {t \in S : \A u \in S : timepoints[t].order >= timepoints[u].order}

\* Likewise for previous_tp: the element before cur.
PreviousOffered(e, cur) ==
    LET own == {t \in DOMAIN timepoints : timepoints[t].experiment_id = e}
        ties == {t \in own \ {cur} : timepoints[t].order = timepoints[cur].order}
        earlier == {t \in own : timepoints[t].order < timepoints[cur].order}
    IN IF cur \notin own THEN {NoId}
       ELSE ties \cup LastByOrder(earlier)
                 \cup (IF earlier = {} THEN {NoId} ELSE {})

\* go_to_next: set_current_timepoint(experiment_id, next_tp.id)
GoToNext(e) ==
    \E nxt \in NextOffered(e, CurrentTimepointId(e)) \ {NoId} :
        SetCurrentTimepoint(e, nxt)

\* go_to_previous: set_current_timepoint(experiment_id, previous_tp.id)
GoToPrevious(e) ==
    \E prv \in PreviousOffered(e, CurrentTimepointId(e)) \ {NoId} :
        SetCurrentTimepoint(e, prv)

\* advance_timepoint, rendered when is_timepoint_completed(current) and not
\* is_final_timepoint(current).
ClickAdvanceTimepoint(e) ==
    LET cur == CurrentTimepointId(e)
    IN /\ cur \in DOMAIN timepoints
       /\ TRUE \in TimepointCompletedValues(cur)
       /\ ~IsFinal(cur)
       /\ AdvanceToNextTimepoint(e)

\* toggle_completed of batch b at the current timepoint.
ToggleCompleted(e, b) ==
    LET cur == CurrentTimepointId(e)
        rows == Matching(measurements, b, cur)
    IN /\ cur \in DOMAIN timepoints
       /\ b \in BatchesOf(e)
       /\ IF rows = {}
          THEN MarkMeasurementCompleted(b, cur, TRUE)
          ELSE \E m \in rows :
                  MarkMeasurementCompleted(b, cur, ~measurements[m].completed)

InitNavigate ==
    /\ timepoints \in SequenceTables
    /\ \E cur \in DOMAIN timepoints :
          experiments = [e \in ExperimentIds |->
             [status |-> "Planning",
              current_timepoint_id |-> IF e = PageExperiment THEN cur ELSE NoId]]
    /\ batches = PageBatches
    /\ measurements = EmptyTable
    /\ sessions = EmptyTable
    /\ assigned = [b \in DOMAIN batches |-> None]
    /\ ret = Call("init", <<>>, NoId)

DoGoToNext == GoToNext(PageExperiment)

DoGoToPrevious == GoToPrevious(PageExperiment)

DoClickAdvanceTimepoint == ClickAdvanceTimepoint(PageExperiment)

DoToggleCompleted == \E b \in AnyBatchId : ToggleCompleted(PageExperiment, b)

SpecNavigate ==
    /\ InitNavigate
    /\ [][\/ DoGoToNext
          \/ DoGoToPrevious
          \/ DoClickAdvanceTimepoint
          \/ DoToggleCompleted]_vars

(***************************************************************************)
(* SpecPh: the four handlers that pass a pH on: the quick pH dialog and    *)
(* the measurement dialog of the workflow page, the grid of the overview   *)
(* page, and the pH section of the batch page.                             *)
(***************************************************************************)
\* The numbers a user enters, written as their decimal text.
PhValues == {"-1", "0", "7", "14", "15"}
PhNumber ==
    [v \in PhValues |->
        CASE v = "-1" -> 0 - 1 [] v = "0" -> 0 [] v = "7" -> 7
          [] v = "14" -> 14 [] v = "15" -> 15]

\* 0 <= value <= 14
InRange(v) == 0 <= PhNumber[v] /\ PhNumber[v] <= 14

\* The value of a ui.number(min=0, max=14) when the handler reads it: the
\* number entered, or None for an empty field.  The range is a property of
\* the input element: depending on whether the element has limited the
\* number by then, the handler reads the number entered or the nearest limit.
NumberElementValues(v) ==
    IF v = None THEN {None}
    ELSE {v} \cup {IF PhNumber[v] < 0 THEN "0"
                   ELSE IF PhNumber[v] > 14 THEN "14" ELSE v}

\* save_ph of the quick pH dialog: value = float(ph_input.value), which
\* raises ValueError on text that is no number.
QuickSavePh(b, t, text) ==
    IF text \in PhValues /\ InRange(text)
    THEN RecordMeasurement(b, t, [k \in {"ph_value"} |-> text])
    ELSE /\ ret' = Call("save_ph", <<b, t, text>>, FALSE)
         /\ UNCHANGED <<experiments, batches, timepoints, measurements, sessions, assigned>>

\* save_ph of the measurement dialog, value being what it reads from the
\* number element.
DialogSavePh(b, t, value) ==
    RecordMeasurement(b, t, [k \in {"ph_value"} |-> value])

\* update_ph of the overview grid: float(e.value) if e.value else None; the
\* number 0 is falsy.
UpdatePh(b, t, v) ==
    LET value == IF v = None \/ v = "0" THEN None ELSE v
    IN IF value # None /\ ~InRange(value)
       THEN /\ ret' = Call("update_ph", <<b, t, v>>, FALSE)
            /\ UNCHANGED <<experiments, batches, timepoints, measurements, sessions, assigned>>
       ELSE RecordMeasurement(b, t, [k \in {"ph_value"} |-> value])

\* log_ph_measurement of the batch page, value being what it reads from
\* the number element.
LogPhMeasurement(b, ts, value) ==
    LogBatchAction(b, "ph_measurement", ts, [k \in {"ph_value"} |-> value])

InitPh ==
    /\ experiments = [e \in ExperimentIds |->
                        [status |-> "Planning", current_timepoint_id |-> NoId]]
    /\ batches = PageBatches
    /\ timepoints = OneTimepoint
    /\ measurements = EmptyTable
    /\ sessions = EmptyTable
    /\ assigned = [b \in DOMAIN batches |-> None]
    /\ ret = Call("init", <<>>, NoId)

\* The handlers, each with every batch, timepoint and entry; a number
\* element hands its handler one of NumberElementValues of the entry.
SpecPh ==
    /\ InitPh
    /\ [][\/ \E b \in DOMAIN batches, t \in DOMAIN timepoints, text \in PhValues \cup {"", "abc"} :
               QuickSavePh(b, t, text)
          \/ \E b \in DOMAIN batches, t \in DOMAIN timepoints,
                v \in PhValues \cup {None} :
               \E value \in NumberElementValues(v) : DialogSavePh(b, t, value)
          \/ \E b \in DOMAIN batches, t \in DOMAIN timepoints,
                v \in PhValues \cup {None} :
               UpdatePh(b, t, v)
          \/ \E b \in DOMAIN batches, ts \in Timestamps,
                v \in PhValues \cup {None} :
               \E value \in NumberElementValues(v) : LogPhMeasurement(b, ts, value)]_vars

(***************************************************************************)
(* SpecOwner: two registered users, one browser.  sessions holds the       *)
(* browser's app.storage.user['username'] and the pages it has open; the   *)
(* store starts with one experiment of each user.                          *)
(***************************************************************************)
MaxExperiments == 3
Users == {"alice", "bob"}
\* The page /new; the other pages are named by their experiment.
NewPage == 0

\* get_current_user(): the User whose username the browser's storage
\* holds, None if it holds none.
CurrentUser == IF sessions.username \in Users THEN sessions.username ELSE None

\* Batch(experiment_id=e, name=..., status="Setup"): the declarative
\* constructor raises TypeError for a keyword the class has no attribute for.
BatchConstructorRaises(kwargs) == ~(kwargs \subseteq BatchAttributes)

RECURSIVE AddBatches(_, _, _)
AddBatches(bts, e, n) ==
    IF n = 0 THEN bts
    ELSE AddBatches(Insert(bts, [experiment_id |-> e, status |-> "Setup",
                                 temperature |-> None]), e, n - 1)

\* create_experiment(title, num_batches)
CreateExperiment(title, n) ==
    LET id == NextRowId(experiments)
        failed == /\ ret' = Call("create_experiment", <<title, n>>, NoId)
                  /\ UNCHANGED <<experiments, batches, timepoints, measurements,
                                 sessions, assigned>>
    IN IF CurrentUser = None THEN failed
       ELSE IF n >= 1 /\ BatchConstructorRaises({"experiment_id", "name", "status"})
       THEN failed
       ELSE /\ id <= MaxExperiments
            /\ experiments' = Insert(experiments,
                   [title |-> title, user_id |-> CurrentUser,
                    status |-> "Planning", current_timepoint_id |-> NoId])
            /\ batches' = AddBatches(batches, id, n)
            /\ assigned' = [b \in DOMAIN batches' |->
                               IF b \in DOMAIN assigned THEN assigned[b] ELSE None]
            /\ ret' = Call("create_experiment", <<title, n>>, id)
            /\ UNCHANGED <<timepoints, measurements, sessions>>

\* handle_login of the login page.
Login(u) ==
    /\ sessions' = [sessions EXCEPT !.username = u]
    /\ ret' = Call("login", <<u>>, TRUE)
    /\ UNCHANGED <<experiments, batches, timepoints, measurements, assigned>>

\* handle_logout of the dashboard.
Logout ==
    /\ sessions' = [sessions EXCEPT !.username = None]
    /\ ret' = Call("logout", <<>>, TRUE)
    /\ UNCHANGED <<experiments, batches, timepoints, measurements, assigned>>

\* A page function under @login_required: it renders when there is a
\* current user; the functions that load the experiment filter by id alone.
OpenPage(p) ==
    /\ CurrentUser # None
    /\ sessions' = [sessions EXCEPT !.pages = @ \cup {p}]
    /\ ret' = Call("page", <<p>>, TRUE)
    /\ UNCHANGED <<experiments, batches, timepoints, measurements, assigned>>

InitOwner ==
    /\ experiments = [e \in ExperimentIds |->
                        [title |-> "k", user_id |-> IF e = 1 THEN "alice" ELSE "bob",
                         status |-> "Planning", current_timepoint_id |-> NoId]]
    /\ batches = [b \in ExperimentIds |->
                    [experiment_id |-> b, status |-> "Setup", temperature |-> None]]
    /\ timepoints = OneTimepointEach
    /\ measurements = EmptyTable
    /\ sessions = [username |-> None, pages |-> {}]
    /\ assigned = [b \in DOMAIN batches |-> None]
    /\ ret = Call("init", <<>>, NoId)

\* A handler of the pages of experiment e, for the batches and timepoints
\* those pages show.
PageHandler(e) ==
    LET bs == {x \in DOMAIN batches : batches[x].experiment_id = e}
        ts == {x \in DOMAIN timepoints : timepoints[x].experiment_id = e}
    IN \/ \E b \in bs, t \in ts :
             RecordMeasurement(b, t, [k \in {"ph_value"} |-> "a"])
       \/ \E t \in ts : SetCurrentTimepoint(e, t)
       \/ \E b \in bs : LogBatchAction(b, "preparation", "t1", [k \in {} |-> None])
       \/ UpdateExperiment(e, [k \in {"status"} |-> "Running"])
       \/ CreateCustomTimepoint(e, "tx", 0, NoId)

SpecOwner ==
    /\ InitOwner
    /\ [][\/ \E u \in Users : Login(u)
          \/ Logout
          \/ \E p \in ExperimentIds \cup {NewPage} : OpenPage(p)
          \/ /\ NewPage \in sessions.pages
             /\ \E n \in 0..2 : CreateExperiment("k", n)
          \/ \E e \in sessions.pages \cap ExperimentIds : PageHandler(e)]_vars

(***************************************************************************)
(* SpecSync: the Sync buttons.  sessions holds the browser's username,     *)
(* whether that user has an API key, the experiments of the elabFTW        *)
(* server, and the list last handed to generate_experiment_html.           *)
(***************************************************************************)
MaxRemote == 3

\* What a run of create_and_update_experiment can come to: the client
\* cannot be initialised, the POST fails, the response has no Location
\* header, the PATCH fails, the final GET fails, or all of them succeed.
SyncOutcomes ==
    {"no_client", "post_failed", "no_location", "patch_failed", "get_failed", "ok"}

\* generate_batch_dict_from_db_batch(batch) reads batch.status, which raises
\* AttributeError on an object without that attribute.
GenerateBatchDictRaises(obj) == "status" \notin DOMAIN obj

\* The dictionary it returns otherwise: the recipe parameters and the
\* status, and the workflow attributes the object has with a truthy value.
GenerateBatchDict(obj) ==
    LET workflow == {"preparation_time", "incubation_start_time",
                     "incubation_end_time", "sample_split_time",
                     "micro_plating_time", "micro_results", "hplc_prep_time",
                     "hplc_results", "ph_measurement_time", "ph_value",
                     "scoby_wet_weight_time", "scoby_wet_weight",
                     "scoby_dry_weight", "temperature_logger_ids", "notes"}
    IN [k \in {"temperature", "status"} \cup
               {a \in workflow \cap DOMAIN obj : obj[a] # None} |-> obj[k]]

\* The server after create_and_update_experiment(title, body) has come to
\* outcome: the POST adds an experiment, the PATCH gives it its body.
RemoteAfter(remote, body, outcome) ==
    IF outcome \in {"no_client", "post_failed"} THEN remote
    ELSE IF outcome \in {"no_location", "patch_failed"}
    THEN Insert(remote, [patched |-> FALSE, body |-> EmptyTable])
    ELSE Insert(remote, [patched |-> TRUE, body |-> body])

\* sync_experiment_with_elabftw(experiment_id)
SyncExperimentWithElabftw(e, outcome) ==
    LET failed == /\ ret' = Call("sync_experiment_with_elabftw", <<e>>, FALSE)
                  /\ UNCHANGED <<experiments, batches, timepoints, measurements,
                                 sessions, assigned>>
        bs == {b \in DOMAIN batches : batches[b].experiment_id = e}
        batch_dicts == [b \in bs |-> GenerateBatchDict(LoadBatch(batches[b]))]
    IN IF CurrentUser = None \/ ~sessions.api_key THEN failed
       ELSE IF e \notin DOMAIN experiments THEN failed
       ELSE IF \E b \in bs : GenerateBatchDictRaises(LoadBatch(batches[b])) THEN failed
       ELSE /\ Cardinality(DOMAIN sessions.remote) < MaxRemote
            /\ sessions' = [sessions EXCEPT
                              !.rendered = [called |-> TRUE, batch_dicts |-> batch_dicts],
                              !.remote = RemoteAfter(@, batch_dicts, outcome)]
            /\ experiments' = IF outcome = "ok"
                              THEN [experiments EXCEPT
                                      ![e].elab_id = NextRowId(sessions.remote)]
                              ELSE experiments
            /\ ret' = Call("sync_experiment_with_elabftw", <<e>>, outcome = "ok")
            /\ UNCHANGED <<batches, timepoints, measurements, assigned>>

\* update_api_key(api_key) with a key that is not empty.
UpdateApiKey ==
    /\ sessions' = [sessions EXCEPT !.api_key = @ \/ CurrentUser # None]
    /\ ret' = Call("update_api_key", <<>>, CurrentUser # None)
    /\ UNCHANGED <<experiments, batches, timepoints, measurements, assigned>>

\* Experiment 1 has a batch, experiment 2 has none.
InitSync ==
    /\ experiments = [e \in ExperimentIds |->
                        [status |-> "Planning", current_timepoint_id |-> NoId,
                         elab_id |-> NoId]]
    /\ batches = [b \in {1} |->
                    [experiment_id |-> 1, status |-> "Setup", temperature |-> None]]
    /\ timepoints = OneTimepointEach
    /\ measurements = EmptyTable
    /\ sessions = [username |-> None, api_key |-> FALSE, remote |-> EmptyTable,
                   rendered |-> [called |-> FALSE, batch_dicts |-> EmptyTable]]
    /\ assigned = [b \in DOMAIN batches |-> None]
    /\ ret = Call("init", <<>>, NoId)

SpecSync ==
    /\ InitSync
    /\ [][\/ Login("alice")
          \/ UpdateApiKey
          \/ \E e \in AnyExperimentId, outcome \in SyncOutcomes :
               SyncExperimentWithElabftw(e, outcome)
          \/ \E v \in {"a", "b"} :
               RecordMeasurement(1, 1, [k \in {"ph_value"} |-> v])]_vars

(***************************************************************************)
(* Properties of the sequencer, checked under Spec.                        *)
(***************************************************************************)
TimepointsOf(e) == {t \in DOMAIN timepoints : timepoints[t].experiment_id = e}

IsAdvance(r) == r.op = "advance_to_next_timepoint"

\* C1: a successful advance_to_next_timepoint(e) returns, and makes current,
\* a timepoint that belongs to e and whose order is strictly greater than the
\* order of the timepoint that was current before the call.
C1_AdvanceSameExperimentGreaterOrder ==
    [][(IsAdvance(ret') /\ ret'.val # NoId) =>
        LET e == ret'.args[1]
            nxt == ret'.val
        IN /\ e \in DOMAIN experiments
           /\ experiments'[e].current_timepoint_id = nxt
           /\ nxt \in DOMAIN timepoints'
           /\ timepoints'[nxt].experiment_id = e
           /\ experiments[e].current_timepoint_id \in DOMAIN timepoints
           /\ timepoints'[nxt].order >
                 timepoints[experiments[e].current_timepoint_id].order]_vars

\* A successful advance while another experiment owns a timepoint of a lower
\* order than the one returned, and this experiment one that is not later.
C1_Witness ==
    /\ IsAdvance(ret) /\ ret.val # NoId
    /\ \E t \in DOMAIN timepoints :
          /\ timepoints[t].experiment_id # ret.args[1]
          /\ timepoints[t].order < timepoints[ret.val].order
    /\ \E t \in TimepointsOf(ret.args[1]) \ {ret.val} :
          timepoints[t].order <= timepoints[ret.val].order

\* C2: advance_to_next_timepoint(e) selects, among the timepoints of e whose
\* order is strictly greater than the current timepoint's order, one of the
\* smallest order, and sets e's current timepoint to exactly that timepoint.
C2_AdvanceSelectsSmallestLater ==
    [][IsAdvance(ret') =>
        LET e == ret'.args[1]
            cur == experiments[e].current_timepoint_id
            later == {t \in TimepointsOf(e) : timepoints[t].order > timepoints[cur].order}
        IN (e \in DOMAIN experiments /\ cur \in DOMAIN timepoints /\ later # {}) =>
              /\ ret'.val \in later
              /\ \A u \in later : timepoints[ret'.val].order <= timepoints[u].order
              /\ experiments' = [experiments EXCEPT ![e].current_timepoint_id = ret'.val]]_vars

\* A successful advance that had at least two later timepoints to choose from.
C2_Witness ==
    /\ IsAdvance(ret) /\ ret.val # NoId
    /\ \E u \in TimepointsOf(ret.args[1]) :
          timepoints[u].order > timepoints[ret.val].order

\* C3: when experiment e has no current timepoint, or no timepoint of e has an
\* order greater than the current one, advance_to_next_timepoint(e) reports
\* "no next" and leaves the whole store unchanged.
C3_NoNextLeavesStoreUnchanged ==
    [][IsAdvance(ret') =>
        LET e == ret'.args[1]
            cur == experiments[e].current_timepoint_id
        IN (/\ e \in DOMAIN experiments
            /\ \/ cur \notin DOMAIN timepoints
               \/ \A t \in TimepointsOf(e) : timepoints[t].order <= timepoints[cur].order)
           => (ret'.val = NoId /\ store' = store)]_vars

\* "No next" was reported for an experiment that has timepoints and whose
\* current timepoint is one of them.
C3_Witness ==
    /\ IsAdvance(ret) /\ ret.val = NoId
    /\ ret.args[1] \in DOMAIN experiments
    /\ experiments[ret.args[1]].current_timepoint_id \in TimepointsOf(ret.args[1])
    /\ Cardinality(TimepointsOf(ret.args[1])) >= 2

(***************************************************************************)
(* Properties of the recorder, checked under SpecMeas and SpecCompleted.   *)
(***************************************************************************)
IsRecord(r) == r.op = "record_measurement"
IsMark(r) == r.op = "mark_measurement_completed"

RowsOfPair(ms, b, t) ==
    {m \in DOMAIN ms : ms[m].batch_id = b /\ ms[m].timepoint_id = t}

\* C4: in every state reached by record_measurement and
\* mark_measurement_completed calls executed one after the other there is at
\* most one Measurement row for each (batch, timepoint) pair.
C4_OneRowPerPairSequential ==
    \A m1, m2 \in DOMAIN measurements :
        (/\ measurements[m1].batch_id = measurements[m2].batch_id
         /\ measurements[m1].timepoint_id = measurements[m2].timepoint_id)
        => m1 = m2

\* mark_measurement_completed has just acted on a row that record_measurement
\* created, next to the row of another pair.
C4_Witness ==
    /\ IsMark(ret)
    /\ Cardinality(DOMAIN measurements) = 2
    /\ \E m \in RowsOfPair(measurements, ret.args[1], ret.args[2]) :
          measurements[m].ph_value = "a"
    /\ ret.args[1] # ret.args[2]

\* C6: record_measurement changes only the fields passed in the call: on an
\* existing row every field not named keeps its value and every field named
\* takes the value passed, and no other row or table changes; so field A and
\* then field B recorded on one pair leaves both set as recorded.
C6_RecordPatchesOnlyNamedFields ==
    [][IsRecord(ret') =>
        LET b == ret'.args[1]
            t == ret'.args[2]
            values == ret'.args[3]
            old == RowsOfPair(measurements, b, t)
        IN /\ old # {} =>
                \E m \in old :
                   /\ DOMAIN measurements' = DOMAIN measurements
                   /\ \A k \in DOMAIN measurements[m] :
                         measurements'[m][k] =
                            IF k \in DOMAIN values THEN values[k] ELSE measurements[m][k]
                   /\ \A n \in (DOMAIN measurements) \ {m} :
                         measurements'[n] = measurements[n]
           /\ <<experiments, batches, timepoints>>' = <<experiments, batches, timepoints>>
           /\ (/\ IsRecord(ret) /\ ret.args[1] = b /\ ret.args[2] = t
               /\ Cardinality(DOMAIN ret.args[3]) = 1
               /\ Cardinality(DOMAIN values) = 1
               /\ DOMAIN ret.args[3] # DOMAIN values)
              => \E m \in RowsOfPair(measurements', b, t) :
                    /\ \A k \in DOMAIN ret.args[3] : measurements'[m][k] = ret.args[3][k]
                    /\ \A k \in DOMAIN values : measurements'[m][k] = values[k]]_vars

\* micro_results alone was recorded on a row that already held a pH value and
\* the completed flag.
C6_Witness ==
    /\ IsRecord(ret)
    /\ DOMAIN ret.args[3] = {"micro_results"}
    /\ \E m \in RowsOfPair(measurements, ret.args[1], ret.args[2]) :
          /\ measurements[m].ph_value = "a"
          /\ measurements[m].micro_results = "a"
          /\ measurements[m].completed

\* C7: record_measurement is idempotent per field: a call that repeats the
\* call before it (same pair, same single field and value) leaves the store,
\* the number of rows and every field of every row, as the first call left it.
C7_RecordIdempotentPerField ==
    [][(/\ IsRecord(ret) /\ IsRecord(ret')
        /\ ret'.args = ret.args
        /\ Cardinality(DOMAIN ret.args[3]) = 1)
       => store' = store]_vars

\* A single field was recorded with a value on a pair whose batch and
\* timepoint ids differ, while the table has room for another row.
C7_Witness ==
    /\ IsRecord(ret)
    /\ ret.args[1] # ret.args[2]
    /\ ret.args[3] = [k \in {"ph_value"} |-> "a"]
    /\ Cardinality(DOMAIN measurements) < MaxMeasurements
    /\ \E m \in RowsOfPair(measurements, ret.args[1], ret.args[2]) :
          measurements[m].ph_value = "a"

\* C8: is_timepoint_completed(t) is true if and only if the experiment owning
\* t has at least one batch and every batch of that experiment has a
\* Measurement at t with completed = true; it is false without batches.
C8_CompletedIffAllBatchesCompleted ==
    (ret.op = "is_timepoint_completed" /\ ret.args[1] \in DOMAIN timepoints) =>
        LET t == ret.args[1]
            bs == {b \in DOMAIN batches :
                     batches[b].experiment_id = timepoints[t].experiment_id}
        IN ret.val = (/\ bs # {}
                      /\ \A b \in bs : \E m \in RowsOfPair(measurements, b, t) :
                            measurements[m].completed = TRUE)

\* The query answered true for an experiment with two batches.
C8_Witness ==
    /\ ret.op = "is_timepoint_completed" /\ ret.val = TRUE
    /\ Cardinality({b \in DOMAIN batches :
          batches[b].experiment_id = timepoints[ret.args[1]].experiment_id}) = 2

\* C9: mark_measurement_completed(b, t, c) sets only the completed flag of
\* the (b, t) Measurement to c: an existing row keeps all its other fields,
\* and when there is none exactly one row is created whose only set field is
\* completed = c.
C9_MarkTouchesOnlyCompleted ==
    [][IsMark(ret') =>
        LET b == ret'.args[1]
            t == ret'.args[2]
            c == ret'.args[3]
            old == RowsOfPair(measurements, b, t)
        IN /\ <<experiments, batches, timepoints>>' = <<experiments, batches, timepoints>>
           /\ \A n \in (DOMAIN measurements) \ old : 
                 n \in DOMAIN measurements' /\ measurements'[n] = measurements[n]
           /\ IF old = {}
              THEN \E id \in (DOMAIN measurements') \ (DOMAIN measurements) :
                      /\ DOMAIN measurements' = (DOMAIN measurements) \cup {id}
                      /\ measurements'[id] =
                            [batch_id |-> b, timepoint_id |-> t, ph_value |-> None,
                             micro_results |-> None, completed |-> c]
              ELSE /\ DOMAIN measurements' = DOMAIN measurements
                   /\ \E m \in old :
                         /\ measurements'[m].completed = c
                         /\ \A k \in (DOMAIN measurements[m]) \ {"completed"} :
                               measurements'[m][k] = measurements[m][k]
                         /\ \A n \in old \ {m} : measurements'[n] = measurements[n]]_vars

\* A row holding a pH value and micro results was marked completed.
C9_Witness ==
    /\ IsMark(ret) /\ ret.args[3] = TRUE
    /\ \E m \in RowsOfPair(measurements, ret.args[1], ret.args[2]) :
          /\ measurements[m].ph_value = "a"
          /\ measurements[m].micro_results = "a"
          /\ measurements[m].completed

Count(xs, x) == Cardinality({i \in DOMAIN xs : xs[i] = x})

IsLog(r) == r.op = "log_batch_action"

\* The status the priority rules give for a non-empty set of batch statuses.
RuleStatus(S) ==
    IF S = {"Completed"} THEN "Completed"
    ELSE IF "Setup" \in S THEN "Planning"
    ELSE IF S \cap {"Incubating", "Sampling"} # {} THEN "Running"
    ELSE "Analysis"

\* C11: whenever log_batch_action(b, a) returns success, the status stored
\* for b's experiment equals the status the priority rules derive from the
\* statuses stored for all batches of that experiment.
C11_SuccessStoresDerivedStatus ==
    (/\ IsLog(ret) /\ ret.val = TRUE
     /\ batches[ret.args[1]].experiment_id \in DOMAIN experiments)
    => LET e == batches[ret.args[1]].experiment_id
       IN experiments[e].status =
             RuleStatus({batches[x].status : x \in BatchesOf(e)})

\* The status each action type is said to leave the batch with.
ClaimedStatus(a) ==
    CASE a = "preparation" -> "Prepared"
      [] a = "incubation_start" -> "Incubating"
      [] a = "incubation_end" -> "Sampling"
      [] a = "sample_split" -> "Analysis Pending"
      [] a = "micro_plating" -> "Micro Plated"
      [] a = "hplc_prep" -> "HPLC Prepped"
      [] a = "ph_measurement" -> "pH Measured"
      [] a = "scoby_wet_weight" -> "SCOBY Weighed"
      [] a = "scoby_dry_weight" -> "Completed"

\* C12: for each of the nine action types, a successful log_batch_action(b,
\* action) leaves batch b, as read back from the store, with the status the
\* action maps to, whatever status b had before.
C12_SuccessStoresMappedStatus ==
    (IsLog(ret) /\ ret.val = TRUE /\ ret.args[2] \in ActionTypes)
    => batches[ret.args[1]].status = ClaimedStatus(ret.args[2])

\* The status the logged actions give a batch: Setup until an action of the
\* mapping is logged for it, then the status of the last such action.
LoggedStatus(asg, b) == IF asg[b] = None THEN "Setup" ELSE asg[b]

\* C13: for an experiment with two batches and status Planning, a
\* log_batch_action call leaves the experiment Planning while a batch is
\* still Setup, and makes it Running when after the call no batch is Setup
\* and some batch is Incubating (preparation on batch 1, then preparation and
\* incubation_start on batch 2).
C13_PlanningUntilNoSetupThenRunning ==
    [][(/\ IsLog(ret') /\ ret'.val = TRUE
        /\ batches[ret'.args[1]].experiment_id \in DOMAIN experiments
        /\ Cardinality(BatchesOf(batches[ret'.args[1]].experiment_id)) = 2
        /\ experiments[batches[ret'.args[1]].experiment_id].status = "Planning")
       => LET e == batches[ret'.args[1]].experiment_id
              after == {LoggedStatus(assigned', x) : x \in BatchesOf(e)}
          IN /\ ("Setup" \in after) => experiments'[e].status = "Planning"
             /\ ("Setup" \notin after /\ "Incubating" \in after)
                   => experiments'[e].status = "Running"]_vars

\* The order of the batch statuses.
StatusOrder ==
    <<"Setup", "Prepared", "Incubating", "Sampling", "Analysis Pending",
      "Micro Plated", "HPLC Prepped", "pH Measured", "SCOBY Weighed", "Completed">>

Position(s) == CHOOSE i \in DOMAIN StatusOrder : StatusOrder[i] = s

\* C14: batch status never regresses: over any sequence of log_batch_action
\* calls on a batch the position of its status in the order Setup, Prepared,
\* ..., Completed never decreases.
C14_StatusNeverRegresses ==
    [][(IsLog(ret') /\ ret'.val = TRUE)
       => Position(LoggedStatus(assigned', ret'.args[1]))
             >= Position(LoggedStatus(assigned, ret'.args[1]))]_vars

\* The timestamp the store holds for action a of a batch row, None if unset.
TimestampOf(row, a) ==
    IF TimeAttribute[a] \in DOMAIN row THEN row[TimeAttribute[a]] ELSE None

\* C15: log_batch_action never overwrites a timestamp: when batch b already
\* has a timestamp for action a, logging a again leaves it unchanged; when it
\* has none, the call sets it to the timestamp passed.
C15_TimestampSetOnce ==
    [][(IsLog(ret') /\ ret'.val = TRUE /\ ret'.args[2] \in ActionTypes)
       => LET b == ret'.args[1]
              a == ret'.args[2]
          IN IF TimestampOf(batches[b], a) # None
             THEN TimestampOf(batches'[b], a) = TimestampOf(batches[b], a)
             ELSE TimestampOf(batches'[b], a) = ret'.args[3]]_vars

\* C29: log_batch_action is all-or-nothing.  A call either stores the batch
\* change (the status its action type maps to) together with the recomputed
\* experiment status and reports success, or reports failure and leaves the
\* store as it was; in particular no call leaves a change of the batch row
\* stored next to an experiment status that was not recomputed from it.
C29_LogAllOrNothing ==
    [][IsLog(ret') =>
          LET b == ret'.args[1]
              a == ret'.args[2]
          IN \/ /\ ret'.val = TRUE
                /\ a \in DOMAIN status_mapping =>
                      batches'[b].status = status_mapping[a]
                /\ LET e == batches'[b].experiment_id
                   IN experiments'[e].status =
                         RuleStatus({batches'[x].status :
                                       x \in {y \in DOMAIN batches' :
                                                 batches'[y].experiment_id = e}})
             \/ /\ ret'.val = FALSE
                /\ store' = store]_vars

(***************************************************************************)
(* Properties of delete_timepoint, checked under SpecDelete.               *)
(***************************************************************************)
IsDelete(r) == r.op = "delete_timepoint"

\* C16: delete_timepoint(t) fails and leaves the store unchanged when t is
\* the current timepoint of any experiment or when any Measurement
\* references t; otherwise, if t exists, it removes exactly t.
C16_DeleteRefusedWhenInUse ==
    [][IsDelete(ret') =>
        LET t == ret'.args[1]
            current == \E e \in DOMAIN experiments :
                          experiments[e].current_timepoint_id = t
            measured == \E m \in DOMAIN measurements :
                           measurements[m].timepoint_id = t
        IN IF current \/ measured
           THEN ret'.val = FALSE /\ store' = store
           ELSE (t \in DOMAIN timepoints) =>
                   /\ ret'.val = TRUE
                   /\ DOMAIN timepoints' = (DOMAIN timepoints) \ {t}
                   /\ \A u \in DOMAIN timepoints' : timepoints'[u] = timepoints[u]
                   /\ <<experiments, batches, measurements>>'
                         = <<experiments, batches, measurements>>]_vars

\* delete_timepoint was refused for a timepoint that is current nowhere and
\* has a Measurement, after another timepoint was deleted.
C16_Witness ==
    /\ IsDelete(ret) /\ ret.val = FALSE
    /\ ret.args[1] \in DOMAIN timepoints
    /\ \A e \in DOMAIN experiments : experiments[e].current_timepoint_id # ret.args[1]
    /\ \E m \in DOMAIN measurements : measurements[m].timepoint_id = ret.args[1]
    /\ Cardinality(DOMAIN timepoints) < MaxTimepoints

\* The orders of the timepoints of experiment e.
OrdersOf(e) == {timepoints[t].order : t \in TimepointsOf(e)}

\* C17: a successful delete_timepoint(t) leaves every other timepoint's
\* order, name and hours and every experiment's current timepoint unchanged;
\* with orders 1, 2, 3 and current at order 1, after order 2 is deleted a
\* following advance_to_next_timepoint moves current to the order-3 timepoint.
C17_DeleteKeepsSequencing ==
    [][/\ (IsDelete(ret') /\ ret'.val = TRUE) =>
             /\ \A u \in (DOMAIN timepoints) \ {ret'.args[1]} :
                   /\ u \in DOMAIN timepoints'
                   /\ timepoints'[u].order = timepoints[u].order
                   /\ timepoints'[u].name = timepoints[u].name
                   /\ timepoints'[u].hours = timepoints[u].hours
             /\ \A e \in DOMAIN experiments :
                   /\ e \in DOMAIN experiments'
                   /\ experiments'[e].current_timepoint_id
                         = experiments[e].current_timepoint_id
       /\ (/\ IsAdvance(ret') /\ IsDelete(ret) /\ ret.val = TRUE
           /\ ret'.args[1] \in DOMAIN experiments
           /\ experiments[ret'.args[1]].current_timepoint_id \in TimepointsOf(ret'.args[1])
           /\ timepoints[experiments[ret'.args[1]].current_timepoint_id].order = 1
           /\ OrdersOf(ret'.args[1]) = {1, 3}) =>
             /\ ret'.val \in TimepointsOf(ret'.args[1])
             /\ timepoints[ret'.val].order = 3
             /\ experiments'[ret'.args[1]].current_timepoint_id = ret'.val]_vars

\* The order-2 timepoint of experiment 1 was deleted while the current
\* timepoint is the one of order 1 and the one of order 3 remains.
C17_Witness ==
    /\ IsDelete(ret) /\ ret.val = TRUE
    /\ OrdersOf(1) = {1, 3}
    /\ experiments[1].current_timepoint_id \in TimepointsOf(1)
    /\ timepoints[experiments[1].current_timepoint_id].order = 1

(***************************************************************************)
(* Properties of is_final_timepoint and of the orders, checked under       *)
(* SpecFinal.                                                              *)
(***************************************************************************)
\* C18: in every reachable state in which an experiment has at least one
\* timepoint, is_final_timepoint is true for exactly one of its timepoints,
\* the one with the greatest order.
C18_ExactlyOneFinalTimepoint ==
    \A e \in AnyExperimentId :
        TimepointsOf(e) # {} =>
            \E f \in TimepointsOf(e) :
                /\ \A u \in TimepointsOf(e) : timepoints[u].order <= timepoints[f].order
                /\ \A u \in TimepointsOf(e) : IsFinal(u) <=> (u = f)

\* C19: creating a timepoint in experiment e whose order is smaller than the
\* order of e's final timepoint changes is_final_timepoint for no timepoint
\* that existed before, and the new timepoint is not final.
C19_FinalStableUnderSmallerInsert ==
    [][(/\ ret'.op = "create_custom_timepoint"
        /\ \E f \in TimepointsOf(ret'.args[1]) :
              /\ \A u \in TimepointsOf(ret'.args[1]) :
                    timepoints[u].order <= timepoints[f].order
              /\ timepoints'[ret'.val].order < timepoints[f].order)
       => /\ \A t \in DOMAIN timepoints : IsFinal(t)' = IsFinal(t)
          /\ \A n \in (DOMAIN timepoints') \ (DOMAIN timepoints) : ~(IsFinal(n)')]_vars

\* A timepoint was created whose order lies between the orders of two
\* timepoints of its experiment, the final one and one that is not final.
C19_Witness ==
    /\ ret.op = "create_custom_timepoint"
    /\ \E lo, hi \in TimepointsOf(ret.args[1]) \ {ret.val} :
          /\ timepoints[lo].order < timepoints[ret.val].order
          /\ timepoints[ret.val].order < timepoints[hi].order
          /\ IsFinal(hi)
          /\ ~IsFinal(lo)
    /\ ~IsFinal(ret.val)

\* C20: in every reachable state the order values of the timepoints of one
\* experiment are pairwise distinct, for any sequence of
\* create_default_timepoints, create_custom_timepoint (with or without an
\* explicit order) and delete_timepoint calls.
C20_OrdersDistinctPerExperiment ==
    \A t, u \in DOMAIN timepoints :
        (/\ timepoints[t].experiment_id = timepoints[u].experiment_id
         /\ timepoints[t].order = timepoints[u].order)
        => t = u

\* C22: create_default_timepoints is idempotent: when the experiment already
\* has a timepoint the call reports success and changes nothing, so a second
\* call leaves the store as the first call left it.
C22_CreateDefaultsIdempotent ==
    [][ret'.op = "create_default_timepoints" =>
          /\ ret'.val = TRUE
          /\ TimepointsOf(ret'.args[1]) # {} => store' = store
          /\ (ret.op = "create_default_timepoints" /\ ret.args = ret'.args)
                => store' = store]_vars

\* create_default_timepoints was called for an experiment whose timepoints
\* are custom ones, while the table had room for the defaults.
C22_Witness ==
    /\ ret.op = "create_default_timepoints"
    /\ TimepointsOf(ret.args[1]) # {}
    /\ \A t \in TimepointsOf(ret.args[1]) : timepoints[t].name = "tx"
    /\ SetMax(DOMAIN timepoints) <= MaxTimepoints
    /\ experiments[ret.args[1]].current_timepoint_id = NoId

C30_MissingIdFailsWithoutWrite ==
    [][/\ (ret'.op = "create_default_timepoints"
              /\ ret'.args[1] \notin DOMAIN experiments)
          => (ret'.val = FALSE /\ store' = store)
       /\ (ret'.op = "create_custom_timepoint"
              /\ ret'.args[1] \notin DOMAIN experiments)
          => (ret'.val = NoId /\ store' = store)
       /\ ((IsRecord(ret') \/ IsMark(ret'))
              /\ (\/ ret'.args[1] \notin DOMAIN batches
                  \/ ret'.args[2] \notin DOMAIN timepoints))
          => (ret'.val = FALSE /\ store' = store)]_vars

C23_StartWorkflowSelectsSmallestOrder ==
    [][\A p \in Sessions :
          (ClickStartWorkflow(p, TRUE) /\ ret'.val = TRUE) =>
             LET cur == experiments'[PageExperiment].current_timepoint_id
                 own == {t \in DOMAIN timepoints' :
                            timepoints'[t].experiment_id = PageExperiment}
             IN /\ cur \in own
                /\ \A u \in own : timepoints'[cur].order <= timepoints'[u].order]_vars

\* C24: start workflow is all-or-nothing.  When it has finished, either the
\* experiment has timepoints, a current timepoint and status Running, or
\* its timepoints, current timepoint and status are what they were before;
\* it never leaves the timepoints and the current timepoint set with the
\* status not flipped.
C24_StartWorkflowAllOrNothing ==
    [][\A p \in Sessions, committed \in BOOLEAN :
          ClickStartWorkflow(p, committed) =>
             \/ /\ \E t \in DOMAIN timepoints' :
                      timepoints'[t].experiment_id = PageExperiment
                /\ experiments'[PageExperiment].current_timepoint_id # NoId
                /\ experiments'[PageExperiment].status = "Running"
             \/ /\ timepoints' = timepoints
                /\ experiments' = experiments]_vars

\* C26: no user action writes the status of an experiment directly, except
\* the complete-experiment action, which sets Completed (creation, which
\* sets Planning, precedes the initial state): every other change of a
\* status is made by log_batch_action's derivation from the batch statuses.
C26_StatusWrittenOnlyByCompleteOrDerivation ==
    [][\A e \in ExperimentIds :
          experiments'[e].status # experiments[e].status =>
             \/ /\ ret'.op = "complete_experiment"
                /\ experiments'[e].status = "Completed"
             \/ ret'.op = "log_batch_action"]_vars

\* C27: Completed is terminal: once an experiment has status Completed, no
\* later operation changes its status to another value.
C27_CompletedIsTerminal ==
    [][\A e \in ExperimentIds :
          experiments[e].status = "Completed" =>
             experiments'[e].status = "Completed"]_vars

\* C28: the complete-experiment action sets the status to Completed only in
\* a state where the experiment's current timepoint is its final timepoint
\* and every batch of the experiment has a completed measurement at it.
C28_CompletedOnlyWhenFinalTimepointCompleted ==
    [][\A p \in Sessions :
          ClickCompleteExperiment(p) =>
             LET t == experiments[PageExperiment].current_timepoint_id
             IN /\ IsFinal(t)
                /\ \A b \in BatchesOf(PageExperiment) :
                      \E m \in Matching(measurements, b, t) :
                         measurements[m].completed]_vars

(***************************************************************************)
(* Properties of repeated advancing, checked under SpecAdvance.            *)
(***************************************************************************)
\* The timepoints of experiment e that a run of advances from its current
\* timepoint can still reach: those of greater order.
Remaining(e) ==
    {t \in TimepointsOf(e) :
        timepoints[t].order > timepoints[experiments[e].current_timepoint_id].order}

C38_ForwardOnlyWhenCompleted ==
    [][\A e \in ExperimentIds :
          LET cur == experiments[e].current_timepoint_id
              new == experiments'[e].current_timepoint_id
          IN (/\ cur \in DOMAIN timepoints /\ new \in DOMAIN timepoints
              /\ timepoints[new].order > timepoints[cur].order)
             => \A b \in BatchesOf(e) :
                   \E m \in Matching(measurements, b, cur) :
                      measurements[m].completed]_vars

\* C39: for an experiment whose current timepoint is one of its own, the
\* next timepoint the workflow navigation offers is the timepoint
\* advance_to_next_timepoint would select, and the navigation offers no next
\* exactly when advance_to_next_timepoint returns "no next" and
\* is_final_timepoint(current) is true.
C39_NavigationNextIsAdvanceNext ==
    [][\A e \in ExperimentIds :
          LET cur == experiments[e].current_timepoint_id
          IN cur \in TimepointsOf(e) =>
                /\ GoToNext(e) =>
                      experiments'[e].current_timepoint_id \in NextTimepoints(e)
                /\ (NoId \in NextOffered(e, cur)) <=>
                      (NextTimepoints(e) = {} /\ IsFinal(cur))]_vars

C37_NoDanglingTimepointReference ==
    /\ \A e \in DOMAIN experiments :
          experiments[e].current_timepoint_id # NoId =>
             experiments[e].current_timepoint_id \in DOMAIN timepoints
    /\ \A m \in DOMAIN measurements :
          measurements[m].timepoint_id \in DOMAIN timepoints

(***************************************************************************)
(* Properties of the pH handlers, checked under SpecPh.                    *)
(***************************************************************************)
\* C31: a pH value outside the range 0..14 is rejected before any write on
\* every path that stores a pH (quick pH dialog, measurement dialog,
\* overview grid, ph_measurement batch action): a handler that receives
\* such a value leaves the store as it was, and no stored Measurement holds
\* a pH below 0 or above 14 (a Batch row has no column for a pH).
C31_OutOfRangePhRejected ==
    /\ [][\A b \in DOMAIN batches, t \in DOMAIN timepoints, ts \in Timestamps,
            v \in {x \in PhValues : ~InRange(x)} :
             (\/ QuickSavePh(b, t, v)
              \/ DialogSavePh(b, t, v)
              \/ UpdatePh(b, t, v)
              \/ LogPhMeasurement(b, ts, v)) => store' = store]_vars
    /\ [](\A m \in DOMAIN measurements :
             measurements[m].ph_value \in PhValues => InRange(measurements[m].ph_value))

(***************************************************************************)
(* Properties of experiment creation and ownership, checked under          *)
(* SpecOwner.                                                              *)
(***************************************************************************)
IsCreate(r) == r.op = "create_experiment"

\* The rows of the store that belong to experiment e.
RowsOfExperiment(exps, bts, tps, ms, e) ==
    <<IF e \in DOMAIN exps THEN exps[e] ELSE None,
      {<<b, bts[b]>> : b \in {x \in DOMAIN bts : bts[x].experiment_id = e}},
      {<<t, tps[t]>> : t \in {x \in DOMAIN tps : tps[x].experiment_id = e}},
      {<<m, ms[m]>> : m \in {x \in DOMAIN ms :
                               /\ ms[x].batch_id \in DOMAIN bts
                               /\ bts[ms[x].batch_id].experiment_id = e}}>>

\* C35: create_experiment(title, n) with a logged-in user and n >= 1
\* succeeds and leaves exactly one new experiment, in status Planning and
\* owned by that user, with exactly n new batches, all in status Setup; a
\* call that fails stores nothing.
C35_CreateExperimentWithBatches ==
    [][(IsCreate(ret') /\ ret' # ret) =>
          /\ (CurrentUser # None /\ ret'.args[2] >= 1) =>
                /\ ret'.val # NoId
                /\ DOMAIN experiments' = DOMAIN experiments \cup {ret'.val}
                /\ ret'.val \notin DOMAIN experiments
                /\ experiments'[ret'.val].status = "Planning"
                /\ experiments'[ret'.val].user_id = CurrentUser
                /\ Cardinality(DOMAIN batches' \ DOMAIN batches) = ret'.args[2]
                /\ \A b \in DOMAIN batches' \ DOMAIN batches :
                      /\ batches'[b].experiment_id = ret'.val
                      /\ batches'[b].status = "Setup"
                /\ \A b \in DOMAIN batches : batches'[b] = batches[b]
          /\ ret'.val = NoId => store' = store]_vars

\* C32: while the auth provider reports no current user, no operation
\* writes to the store; while it reports a user, an operation changes only
\* rows of experiments that user owns (or of the experiment it creates).
C32_OwnerScopedWrites ==
    [][/\ CurrentUser = None => store' = store
       /\ CurrentUser # None =>
             \A e \in DOMAIN experiments :
                experiments[e].user_id # CurrentUser =>
                   RowsOfExperiment(experiments', batches', timepoints', measurements', e)
                      = RowsOfExperiment(experiments, batches, timepoints, measurements, e)]_vars

(***************************************************************************)
(* Properties of the sync with elabFTW, checked under SpecSync.            *)
(***************************************************************************)
IsSync(r) == r.op = "sync_experiment_with_elabftw"

\* C33: a successful sync of an experiment that already has an external id
\* leaves that id as it is and adds no remote record; a successful sync of
\* an experiment without one stores the id of a record it has created; a
\* failed sync leaves the external id unchanged.
C33_SyncUpdatesExistingRemoteRecord ==
    [][\A e \in ExperimentIds :
          (IsSync(ret') /\ ret' # ret /\ ret'.args[1] = e) =>
             /\ (ret'.val /\ experiments[e].elab_id # NoId) =>
                   /\ experiments'[e].elab_id = experiments[e].elab_id
                   /\ DOMAIN sessions'.remote = DOMAIN sessions.remote
             /\ (ret'.val /\ experiments[e].elab_id = NoId) =>
                   experiments'[e].elab_id \in
                      DOMAIN sessions'.remote \ DOMAIN sessions.remote
             /\ ~ret'.val => experiments'[e].elab_id = experiments[e].elab_id]_vars

\* The measurement projections of batch b: one for each timepoint that has
\* a Measurement row for b.
MeasurementProjections(b) ==
    {[timepoint |-> timepoints[measurements[m].timepoint_id].name,
      ph_value |-> measurements[m].ph_value,
      micro_results |-> measurements[m].micro_results,
      completed |-> measurements[m].completed] :
        m \in {x \in DOMAIN measurements :
                 /\ measurements[x].batch_id = b
                 /\ measurements[x].timepoint_id \in DOMAIN timepoints}}

\* C34: the snapshot a sync by a user with an API key hands to the report
\* renderer holds, for every batch of the experiment, a measurement
\* projection for exactly the timepoints that have a Measurement row for
\* that batch.
C34_SnapshotHoldsMeasurementProjections ==
    [][\A e \in ExperimentIds :
          (IsSync(ret') /\ ret' # ret /\ ret'.args[1] = e
             /\ CurrentUser # None /\ sessions.api_key) =>
             /\ sessions'.rendered.called
             /\ DOMAIN sessions'.rendered.batch_dicts = BatchesOf(e)
             /\ \A b \in BatchesOf(e) :
                   /\ "measurements" \in DOMAIN sessions'.rendered.batch_dicts[b]
                   /\ sessions'.rendered.batch_dicts[b].measurements
                         = MeasurementProjections(b)]_vars

====
